---- MODULE Spec2Model ----
(***************************************************************************)
(* Forward-backward (Baum-Welch) alignment engines of NativeOp.py:         *)
(* FastBaumWelchOp (base) and SegmentFastBaumWelchOp (segmental), with the *)
(* log-domain arithmetic they share (prob_add, atomic_prob_add).           *)
(*                                                                         *)
(* A float score x (a negative log probability) is represented by the      *)
(* probability exp(-x) it stands for, as a fraction <<n, d>> in lowest     *)
(* terms: x + y is the product of the fractions, x - y their quotient,     *)
(* +inf is 0/1, -inf is 1/0 and NaN is 0/0.  Rounding is not modelled.     *)
(***************************************************************************)
EXTENDS Integers, Sequences, FiniteSets, TLC

VARIABLES
  acell,        \* atomic_prob_add: the shared float cell *a
  ainit,        \* atomic_prob_add: value of the cell before the first caller
  aw,           \* atomic_prob_add: the callers (pc, b, old, tries)
  inp,          \* the inputs of the call (Ndarrays as flat 0-based arrays)
  pc,           \* host: the statement of c_fw_code to execute next
  t,            \* host: loop variable of the fwd / bwd pass
  d_prev,       \* host: d_state_buffer_prev, as an offset into state_buffer
  d_next,       \* host: d_state_buffer_next, as an offset into state_buffer
  state_buffer, \* device: state buffer
  edge_buffer,  \* device: d_edge_buffer
  out,          \* device: d_out
  sum_output,   \* device: d_sum_output / d_norm_factors
  post_weights, \* device: d_posterior_weights (segmental)
  running,      \* stream: the kernel of statement pc has been launched
  ka,           \* stream: arguments of the launched kernel
  wk,           \* stream: the threads of the launched kernel
  hist          \* history of the stream, for the ordering properties

avars == <<acell, ainit, aw>>
pvars == <<pc, t, d_prev, d_next, state_buffer, edge_buffer, out, sum_output, post_weights>>
kvars == <<running, ka, wk>>

vars == <<acell, ainit, aw, inp, pc, t, d_prev, d_next, state_buffer, edge_buffer,
          out, sum_output, post_weights, running, ka, wk, hist>>

----------------------------------------------------------------------------
(* Bounds *)

MaxWorkers == 3    \* concurrent callers of atomic_prob_add on one cell
MaxT       == 2    \* frames of a call
MaxEdges   == 3    \* edges drawn for the first sequence
MaxDen     == 4    \* scores -log(n/d) with 1 <= n <= d <= MaxDen
MaxSegFrames == 2  \* frames of the longest segment (K) where K > 1
MaxEndStates == 3  \* entries of end_states of the multi-end engine

----------------------------------------------------------------------------
(* Float values *)

\* F(a, b), each argument evaluated once: a call passes its floats by value
ByValue(F(_, _), a, b) == CHOOSE r \in {F(x, y) : x \in {a}, y \in {b}} : TRUE

RECURSIVE GCD(_, _)
GCD(a, b) == IF b = 0 THEN a ELSE GCD(b, a % b)

INF     == <<0, 1>>
NEG_INF == <<1, 0>>
NAN     == <<0, 0>>
Zero    == <<1, 1>>
Half    == <<1, 2>>
Third   == <<1, 3>>
\* 1e32: exp(-1e32) is the probability 0, as for +inf, but the value is not +inf;
\* it is kept apart from +inf as the fraction 0/2, which no operation yields
BIG     == <<0, 2>>

Norm(n, d) ==
  ByValue(LAMBDA x, y :
            IF x = 0 /\ y = 0 THEN NAN
            ELSE IF x = 0 THEN INF
            ELSE IF y = 0 THEN NEG_INF
            ELSE LET g == GCD(x, y) IN <<x \div g, y \div g>>,
          n, d)

isnan(x) == x = NAN
isinf(x) == x = INF \/ x = NEG_INF
isfinite(x) == x[1] # 0 /\ x[2] # 0

fadd(a, b) == ByValue(LAMBDA x, y : Norm(x[1] * y[1], x[2] * y[2]), a, b)
fsub(a, b) == ByValue(LAMBDA x, y : Norm(x[1] * y[2], x[2] * y[1]), a, b)
fabs(x) == IF isnan(x) THEN NAN
           ELSE IF isinf(x) THEN INF
           ELSE IF x[1] > x[2] THEN <<x[2], x[1]>> ELSE x
fmin(a, b) == IF a[1] * b[2] >= b[1] * a[2] THEN a ELSE b
\* -log1p(exp(-x)) for x >= 0 or x = +inf: the score of the probability 1 + exp(-x)
neg_log1p_exp_neg(x) == Norm(x[1] + x[2], x[2])

\* the first argument is taken in place of min(a, b)
prob_add_first(a, b) ==
  LET diff == fsub(a, b)
  IN  IF isnan(diff) THEN INF
      ELSE fadd(neg_log1p_exp_neg(fabs(diff)), a)

\* without the test for NaN: inf - inf is carried through
prob_add_nan(a, b) ==
  ByValue(LAMBDA x, y : fadd(neg_log1p_exp_neg(fabs(fsub(x, y))), fmin(x, y)), a, b)

prob_add(a, b) ==
  ByValue(LAMBDA x, y :
            LET diff == fsub(x, y)
            IN  IF isnan(diff) THEN INF
                ELSE fadd(neg_log1p_exp_neg(fabs(diff)), fmin(x, y)),
          a, b)

----------------------------------------------------------------------------
(* atomic_prob_add: int old = *a;  do { assumed = old;                     *)
(*   old = atomicCAS(addr, assumed, prob_add(old, b)); } while (old != assumed) *)

atomic_prob_add_load(cell) == cell

\* atomicCAS stores the new value regardless of the comparison: a plain
\* read-modify-write
atomic_prob_add_cas_plain(cell, old, b) ==
  [cell |-> prob_add(old, b), old |-> old, exit |-> TRUE]

\* the value atomicCAS returned is dropped: the next iteration compares with
\* the value read before the loop
atomic_prob_add_cas_stale(cell, old, b) ==
  [cell |-> IF cell = old THEN prob_add(old, b) ELSE cell,
   old  |-> old,
   exit |-> cell = old]

\* one iteration of the loop: the cell after atomicCAS, the value it returned,
\* and whether the loop exits
atomic_prob_add_cas(cell, old, b) ==
  [cell |-> IF cell = old THEN prob_add(old, b) ELSE cell,
   old  |-> cell,
   exit |-> cell = old]

\* a call that runs without interference
atomic_prob_add(cell, b) ==
  atomic_prob_add_cas(cell, atomic_prob_add_load(cell), b).cell

----------------------------------------------------------------------------
(* Device arrays and the kernels that one thread per element runs without   *)
(* atomics                                                                  *)

n_threads == 1024

Arr(n, v) == [i \in 0..(n - 1) |-> v]
Min(a, b) == IF a <= b THEN a ELSE b
Blocks(n) == (n + n_threads - 1) \div n_threads

\* a fill that leaves the array as it finds it
fill_array_none(array, off, value, size, n_blocks) == array

\* fill_array<<<n_blocks, n_threads>>>(array + off, value, size)
fill_array(array, off, value, size, n_blocks) ==
  [i \in DOMAIN array |->
     IF i >= off /\ i - off < size /\ i - off < n_blocks * n_threads
     THEN value ELSE array[i]]

\* remove_inf<<<n_blocks, n_threads>>>(array, size): fminf(array[idx], 1e32), which
\* is 1e32 for +inf and for NaN
remove_inf(array, size, n_blocks) ==
  [i \in DOMAIN array |->
     IF i < size /\ i < n_blocks * n_threads /\ (array[i] = INF \/ isnan(array[i]))
     THEN BIG ELSE array[i]]

\* set_start_states<<<1, n_seqs>>>(states + off, start_states)
set_start_states(states, off, in) ==
  [i \in DOMAIN states |->
     IF \E idx \in 0..(in.n_seqs - 1) : i = off + in.start_states[idx]
     THEN Zero ELSE states[i]]

\* the end state is set in every frame the mask marks as valid
init_bwd_cond_every_frame(in, idx, tt, max_t) ==
  in.index[tt * in.index_stride + idx] = 1

\* the end state is set in the last frame of the batch only, whatever the mask
init_bwd_cond_last_frame(in, idx, tt, max_t) ==
  tt = max_t

\* the condition under which thread idx of init_bwd_state_buffer stores
init_bwd_cond(in, idx, tt, max_t) ==
  /\ in.index[tt * in.index_stride + idx] = 1
  /\ (tt = max_t \/ in.index[(tt + 1) * in.index_stride + idx] = 0)

\* init_bwd_state_buffer<<<1, n_seqs>>>(states + off, end_states, tt, max_t, index, index_stride)
init_bwd_state_buffer(states, off, in, tt, max_t) ==
  [i \in DOMAIN states |->
     IF \E idx \in 0..(in.n_seqs - 1) :
          init_bwd_cond(in, idx, tt, max_t) /\ i = off + in.end_states[idx]
     THEN Zero ELSE states[i]]

\* normalize, block b: sum[] after the loop over the edges 0..e-1
RECURSIVE normalize_sum(_, _, _, _)
normalize_sum(in, buffer, b, e) ==
  IF e = 0 THEN [s \in 0..(in.n_seqs - 1) |-> INF]
  ELSE LET s == in.sequence_idxs[e - 1]
       IN  CHOOSE r \in {[sum EXCEPT ![s] = prob_add(sum[s], buffer[b * in.n_edges + e - 1])] :
                           sum \in {normalize_sum(in, buffer, b, e - 1)}} : TRUE

\* the sums are stored and the edge buffer is left as it is
normalize_nosub(in, buffer, sums) ==
  LET sum(b) == normalize_sum(in, buffer, b, in.n_edges)
  IN  [edge_buffer |-> buffer,
       sum_output |->
         [i \in DOMAIN sums |->
            LET v == sum(i \div in.n_seqs)[i % in.n_seqs]
            IN  IF isinf(v) THEN Zero ELSE v]]

\* an infinite sum is stored as it is
normalize_keep_inf(in, buffer, sums) ==
  LET sum(b) == normalize_sum(in, buffer, b, in.n_edges)
  IN  [edge_buffer |->
         [i \in DOMAIN buffer |->
            fsub(buffer[i], sum(i \div in.n_edges)[in.sequence_idxs[i % in.n_edges]])],
       sum_output |->
         [i \in DOMAIN sums |-> sum(i \div in.n_seqs)[i % in.n_seqs]]]

\* normalize<<<n_frames, 1>>>: the edge buffer and sum_output after all blocks
normalize(in, buffer, sums) ==
  LET sum(b) == normalize_sum(in, buffer, b, in.n_edges)
  IN  [edge_buffer |->
         [i \in DOMAIN buffer |->
            fsub(buffer[i], sum(i \div in.n_edges)[in.sequence_idxs[i % in.n_edges]])],
       sum_output |->
         [i \in DOMAIN sums |->
            LET v == sum(i \div in.n_seqs)[i % in.n_seqs]
            IN  IF isinf(v) THEN Zero ELSE v]]

----------------------------------------------------------------------------
(* Kernels whose threads use atomic_prob_add, one thread step at a time.    *)
(* A thread w is [pc, addr, b, old, i, reg]; s holds the device arrays.     *)

Thread0 == [pc |-> "start", addr |-> 0, b |-> INF, old |-> INF, i |-> 0, reg |-> INF]
Finished(w) == [w EXCEPT !.pc = "done"]

\* the edge weight is left out of val
next_frame_val_noweight(prev_val, edge_weight, am) == fadd(prev_val, am)

\* next_frame: float val = prev_val + edge_weight + am_scores[...]
next_frame_val(prev_val, edge_weight, am) == fadd(fadd(prev_val, edge_weight), am)

\* next_frame: what is added to edge_buffer[idx], in the backward sweep too
\* the whole of val
next_frame_edge_add_val(fwd, val, prev_val) == val

\* next_frame: what is added to edge_buffer[idx]
next_frame_edge_add(fwd, val, prev_val) == IF fwd THEN val ELSE prev_val

\* every thread takes the first cell of the frame
next_frame_edge_cell_first(a, idx) == a.eb

\* next_frame: the cell edge_buffer[idx] of the frame the kernel is called for
next_frame_edge_cell(a, idx) == a.eb + idx

\* next_frame up to the call of atomic_prob_add
next_frame_start(in, a, idx, w, s) ==
  LET from     == (IF a.fwd THEN in.from ELSE in.to)[idx]
      prev_val == s.state_buffer[a.prev + from]
  IN  IF isinf(prev_val)
      THEN [w |-> Finished(w), s |-> [s EXCEPT !.edge_buffer[next_frame_edge_cell(a, idx)] = INF]]
      ELSE
        LET to           == (IF a.fwd THEN in.to ELSE in.from)[idx]
            emission_idx == in.emission_idxs[idx]
            edge_weight  == in.weights[idx]
            sequence_idx == in.sequence_idxs[idx]
            val == next_frame_val(prev_val, edge_weight,
                     in.am_scores[a.am + sequence_idx * a.num_emissions + emission_idx])
        IN  [w |-> [w EXCEPT !.pc = "load", !.addr = a.next + to, !.b = val],
             s |-> [s EXCEPT !.edge_buffer[next_frame_edge_cell(a, idx)] =
                                fadd(@, next_frame_edge_add(a.fwd, val, prev_val))]]

\* compute_result up to the call of atomic_prob_add
compute_result_start(in, a, idx, w, s) ==
  LET e_idx        == idx % in.n_edges
      frame        == idx \div in.n_edges
      emission_idx == in.emission_idxs[e_idx]
      seq_idx      == in.sequence_idxs[e_idx]
      score        == s.edge_buffer[idx]
  IN  [w |-> [w EXCEPT !.pc = "load", !.b = score,
                       !.addr = frame * a.frame_stride + seq_idx * a.seq_stride + emission_idx],
       s |-> s]


----------------------------------------------------------------------------
(* Kernels of SegmentFastBaumWelchOp *)

Pow2_16 == 65536

\* (t - 1) % m for an unsigned t of 32 bits: 0 - 1 wraps to 2^32 - 1
usub1_mod(tt, m) ==
  IF tt > 0 THEN (tt - 1) % m
  ELSE ((Pow2_16 % m) * (Pow2_16 % m) + m - 1) % m

\* am_score_scale * x for a scale that is a natural number
RECURSIVE fmul_nat(_, _)
fmul_nat(n, x) ==
  IF n = 0 THEN (IF isfinite(x) THEN Zero ELSE NAN)
  ELSE IF n = 1 THEN x
  ELSE fadd(x, fmul_nat(n - 1, x))

\* index[i]; behind the end of the index array the read yields whatever the
\* memory there holds
index_read(in, i) ==
  IF i < in.n_seg_frames * in.n_batches THEN in.index[i]
  ELSE in.index_oob[i - in.n_seg_frames * in.n_batches]

max_seg_frames(in, time) == Min(in.n_seg_frames, in.n_tot_frames - time)
\* an index that wraps around the list of scales instead of stopping at its end
amss_idx_wrap(in) == in.epoch % in.n_am_score_scales

\* min(static_cast<unsigned>(*epoch), num_am_score_scales - 1)
amss_idx(in) == Min(in.epoch, in.n_am_score_scales - 1)

\* am_scores[j]; a negative batch index is converted to unsigned in the offset,
\* which then lies far behind the end of am_scores: the read yields whatever the
\* memory there holds
am_read(in, j) ==
  IF j \in DOMAIN in.am_scores THEN in.am_scores[j] ELSE in.am_oob

\* am_buffer_in = am_scores + batch_idx * num_seg_frames * num_emissions + emission_idx:
\* the offset of the am score that the sweeps read for a segment of one frame
am_buffer_in(in, batch_idx, emission_idx) ==
  batch_idx * in.n_seg_frames * in.n_emissions + emission_idx

\* the score of edge idx for a segment of i + 1 frames in batch slot batch_idx
seg_edge_score(in, idx, batch_idx, i) ==
  LET length_scores == in.lenmod_idxs[idx] * in.n_seg_frames
  IN  fadd(fmul_nat(in.am_score_scales[amss_idx(in)],
                    am_read(in, am_buffer_in(in, batch_idx, in.emission_idxs[idx])
                                  + i * in.n_emissions)),
           in.length_models[length_scores + i])

\* init_bwd_state_buffer<<<1, n_seqs>>>(tt, n_batches, n_seqs, batch_idxs, index, states + off, end_states)
seg_init_bwd_cond(in, idx, tt) ==
  LET batch_idx == in.batch_idxs[tt * in.n_seqs + idx]
  IN  /\ ~(batch_idx < 0)
      /\ index_read(in, batch_idx) # 0
      /\ index_read(in, batch_idx + in.n_batches) = 0

seg_init_bwd_state_buffer(states, off, in, tt) ==
  [i \in DOMAIN states |->
     IF \E idx \in 0..(in.n_seqs - 1) :
          seg_init_bwd_cond(in, idx, tt) /\ i = off + in.end_states[idx]
     THEN Zero ELSE states[i]]

\* next_frame_fwd: the part before the loop (w.i = 0) and the body of
\* iteration w.i up to the call of atomic_prob_add
next_frame_fwd_start(in, a, idx, w, s) ==
  LET num_ringbuffer_frames == in.n_seg_frames + 1
      prev_frame_idx == a.time % num_ringbuffer_frames
      from      == in.from[idx]
      prev_val  == s.state_buffer[prev_frame_idx * in.n_states + from]
      batch_idx == in.batch_idxs[a.time * in.n_seqs + in.sequence_idxs[idx]]
      prev_plus_edge == IF w.i = 0 THEN fadd(prev_val, in.weights[idx]) ELSE w.reg
      val == fadd(prev_plus_edge, seg_edge_score(in, idx, batch_idx, w.i))
      next_frame == (prev_frame_idx + 1 + w.i) % num_ringbuffer_frames
  IN  IF w.i = 0 /\ (isinf(prev_val) \/ batch_idx = -1)
      THEN [w |-> Finished(w), s |-> s]
      ELSE [w |-> [w EXCEPT !.pc = "load", !.reg = prev_plus_edge, !.b = val,
                            !.addr = next_frame * in.n_states + in.to[idx]],
            s |-> [s EXCEPT !.edge_buffer[a.eb + idx + w.i * in.n_edges] = val]]

\* next_frame_bwd: acc_val and the edge buffer after iterations 0..n-1 of the
\* loop; the kernel is called with from_buffer = d_to and to_buffer = d_from
RECURSIVE next_frame_bwd_loop(_, _, _, _, _)
next_frame_bwd_loop(in, a, idx, s, n) ==
  IF n = 0 THEN [acc_val |-> INF, edge_buffer |-> s.edge_buffer]
  ELSE
    LET r  == next_frame_bwd_loop(in, a, idx, s, n - 1)
        i  == n - 1
        num_ringbuffer_frames == in.n_seg_frames + 1
        next_frame_idx == a.time % num_ringbuffer_frames
        prev_frame_idx == (next_frame_idx + i + 1) % num_ringbuffer_frames
        from      == in.to[idx]
        prev_val  == s.state_buffer[prev_frame_idx * in.n_states + from]
        batch_idx == in.batch_idxs[a.time * in.n_seqs + in.sequence_idxs[idx]]
        val == fadd(fadd(prev_val, in.weights[idx]), seg_edge_score(in, idx, batch_idx, i))
        cell == a.eb + idx + i * in.n_edges
    IN  IF isinf(prev_val)
        THEN [acc_val |-> r.acc_val, edge_buffer |-> [r.edge_buffer EXCEPT ![cell] = INF]]
        ELSE [acc_val |-> prob_add(r.acc_val, val),
              edge_buffer |-> [r.edge_buffer EXCEPT ![cell] = fadd(@, prev_val)]]

next_frame_bwd_start(in, a, idx, w, s) ==
  LET batch_idx == in.batch_idxs[a.time * in.n_seqs + in.sequence_idxs[idx]]
      next_frame_idx == a.time % (in.n_seg_frames + 1)
      r == next_frame_bwd_loop(in, a, idx, s, max_seg_frames(in, a.time))
  IN  IF batch_idx = -1
      THEN [w |-> Finished(w), s |-> s]
      ELSE [w |-> [w EXCEPT !.pc = "load", !.b = r.acc_val,
                            !.addr = next_frame_idx * in.n_states + in.from[idx]],
            s |-> [s EXCEPT !.edge_buffer = r.edge_buffer]]

\* compute_targets up to the call of atomic_prob_add
compute_targets_start(in, a, idx, w, s) ==
  LET edge_idx   == idx % in.n_edges
      time       == idx \div (in.n_edges * in.n_seg_frames)
      seq_idx    == in.sequence_idxs[edge_idx]
      batch_idx  == in.batch_idxs[time * in.n_seqs + seq_idx]
      seg_length == (idx \div in.n_edges) % in.n_seg_frames
      cell       == seg_length * in.n_batches + batch_idx
  IN  IF batch_idx < 0 THEN [w |-> Finished(w), s |-> s]
      ELSE IF index_read(in, cell) = 0 THEN [w |-> Finished(w), s |-> s]
      ELSE [w |-> [w EXCEPT !.pc = "load",
                            !.b = fsub(s.edge_buffer[idx], s.sum_output[cell]),
                            !.addr = seg_length * in.n_batches * in.n_emissions
                                     + batch_idx * in.n_emissions + in.emission_idxs[edge_idx]],
            s |-> s]

\* compute_framewise_sum, thread idx: sum_buffer after the loop over edges 0..e-1
RECURSIVE framewise_sum_buffer(_, _, _, _)
framewise_sum_buffer(in, eb, idx, e) ==
  IF e = 0 THEN [q \in 0..(in.n_seqs - 1) |-> INF]
  ELSE LET sum == framewise_sum_buffer(in, eb, idx, e - 1)
           q   == in.sequence_idxs[e - 1]
       IN  [sum EXCEPT ![q] = prob_add(sum[q], eb[idx * in.n_edges + e - 1])]

\* compute_framewise_sum: output_buffer after the threads 0..n-1
RECURSIVE compute_framewise_sum(_, _, _, _)
compute_framewise_sum(in, eb, output_buffer, n) ==
  IF n = 0 THEN output_buffer
  ELSE
    LET ob   == compute_framewise_sum(in, eb, output_buffer, n - 1)
        idx  == n - 1
        sum  == framewise_sum_buffer(in, eb, idx, in.n_edges)
        time == idx \div in.n_seg_frames
        seg_size == idx % in.n_seg_frames
        Written(c) == \E q \in 0..(in.n_seqs - 1) :
                        /\ in.batch_idxs[time * in.n_seqs + q] >= 0
                        /\ c = seg_size * in.n_batches + in.batch_idxs[time * in.n_seqs + q]
        \* the last sequence that writes cell c wins
        Writer(c) == CHOOSE q \in 0..(in.n_seqs - 1) :
                        /\ in.batch_idxs[time * in.n_seqs + q] >= 0
                        /\ c = seg_size * in.n_batches + in.batch_idxs[time * in.n_seqs + q]
                        /\ \A q2 \in (q + 1)..(in.n_seqs - 1) :
                             ~(in.batch_idxs[time * in.n_seqs + q2] >= 0
                               /\ c = seg_size * in.n_batches + in.batch_idxs[time * in.n_seqs + q2])
    IN  [c \in DOMAIN ob |->
           IF Written(c)
           THEN IF isinf(sum[Writer(c)]) \/ index_read(in, c) = 0 THEN Zero ELSE sum[Writer(c)]
           ELSE ob[c]]

\* merge_framewise_sum, thread idx: sum after the first loop up to s = n
RECURSIVE merge_sum(_, _, _, _)
merge_sum(in, sum_buffer, idx, n) ==
  IF n = 0 THEN sum_buffer[idx]
  ELSE LET sum == merge_sum(in, sum_buffer, idx, n - 1)
       IN  IF index_read(in, n * in.n_batches + idx) # 0
           THEN prob_add(sum, sum_buffer[n * in.n_batches + idx]) ELSE sum

merge_framewise_sum(in, sum_buffer) ==
  [c \in DOMAIN sum_buffer |->
     IF index_read(in, c) # 0
     THEN merge_sum(in, sum_buffer, c % in.n_batches, in.n_seg_frames - 1)
     ELSE sum_buffer[c]]

\* compute_posterior_weights: thread (time, seq_idx) writes cell i = q * n_batches + batch_idx
\* unless an earlier length of the slot has index 0
compute_posterior_weights(in, sb, norm, pw) ==
  [c \in DOMAIN pw |->
     LET q == c \div in.n_batches
         b == c % in.n_batches
         Threads == {idx \in 0..(in.n_tot_frames * in.n_seqs - 1) : in.batch_idxs[idx] = b}
     IN  IF Threads # {} /\ \A q2 \in 0..q : index_read(in, q2 * in.n_batches + b) # 0
         THEN LET idx == CHOOSE x \in Threads : \A y \in Threads : y <= x
                  seq_sum == sb[in.start_states[idx % in.n_seqs]]
              IN  fsub(norm[c], seq_sum)
         ELSE pw[c]]


----------------------------------------------------------------------------
(* Threads: dispatch on the kernel, the steps of atomic_prob_add, and a     *)
(* kernel whose threads run one after the other                             *)

KernelStart(in, a, idx, w, s) ==
  CASE a.name = "next_frame"      -> next_frame_start(in, a, idx, w, s)
    [] a.name = "compute_result"  -> compute_result_start(in, a, idx, w, s)
    [] a.name = "next_frame_fwd"  -> next_frame_fwd_start(in, a, idx, w, s)
    [] a.name = "next_frame_bwd"  -> next_frame_bwd_start(in, a, idx, w, s)
    [] a.name = "compute_targets" -> compute_targets_start(in, a, idx, w, s)

\* the array the kernel's atomic_prob_add calls point into
AtomicOnOut(a) == a.name \in {"compute_result", "compute_targets"}
AtomicCell(a, s, addr) == IF AtomicOnOut(a) THEN s.out[addr] ELSE s.state_buffer[addr]
AtomicStore(a, s, addr, v) ==
  IF AtomicOnOut(a) THEN [s EXCEPT !.out[addr] = v] ELSE [s EXCEPT !.state_buffer[addr] = v]

\* where the thread continues after atomic_prob_add has returned: the loop of
\* next_frame_fwd has further iterations, every other kernel returns
AfterAtomic(in, a, w) ==
  IF a.name = "next_frame_fwd" /\ w.i + 1 < max_seg_frames(in, a.time)
  THEN [w EXCEPT !.pc = "start", !.i = w.i + 1]
  ELSE Finished(w)

ThreadStep(in, a, idx, w, s) ==
  CASE w.pc = "start" -> KernelStart(in, a, idx, w, s)
    [] w.pc = "load"  ->
         [w |-> [w EXCEPT !.pc = "cas", !.old = atomic_prob_add_load(AtomicCell(a, s, w.addr))],
          s |-> s]
    [] w.pc = "cas"   ->
         LET r == atomic_prob_add_cas(AtomicCell(a, s, w.addr), w.old, w.b)
         IN  [w |-> IF r.exit THEN AfterAtomic(in, a, w) ELSE [w EXCEPT !.old = r.old],
              s |-> AtomicStore(a, s, w.addr, r.cell)]

RECURSIVE RunThread(_, _, _, _, _)
RunThread(in, a, idx, w, s) ==
  IF w.pc = "done" THEN s
  ELSE LET r == ThreadStep(in, a, idx, w, s) IN RunThread(in, a, idx, r.w, r.s)

\* the threads 0..n-1 of the kernel, each run to its end before the next starts;
\* a thread leaves the host variables, pc among them, as they are
RECURSIVE RunKernel(_, _, _, _)
RunKernel(in, a, n, s) ==
  IF n = 0 THEN s
  ELSE LET r == RunKernel(in, a, n - 1, s)
       IN  IF r.pc = s.pc THEN RunThread(in, a, n - 1, Thread0, r) ELSE r

----------------------------------------------------------------------------
(* Host code: c_fw_code of FastBaumWelchOp and of SegmentFastBaumWelchOp.   *)
(* s is the record of the host variables and device arrays.                 *)

frame_stride(in)    == in.n_seqs * in.n_emissions
sequence_stride(in) == in.n_emissions

KA(name) == [name |-> name, fwd |-> TRUE, prev |-> 0, next |-> 0, am |-> 0, eb |-> 0,
             num_emissions |-> 0, frame_stride |-> 0, seq_stride |-> 0, time |-> 0, n |-> 0]
NoKernel == KA("none")

KernelPcs == {"fwd_next_frame", "bwd_next_frame", "compute_result",
              "s_fwd_next_frame", "s_bwd_next_frame", "s_compute_targets"}

\* the kernel launch of statement s.pc: the arguments and the number of threads
\* that pass the guard on idx
KernelArgs(in, s) ==
  CASE s.pc = "fwd_next_frame" ->
         [KA("next_frame") EXCEPT !.fwd = TRUE, !.prev = s.d_prev, !.next = s.d_next,
            !.num_emissions = sequence_stride(in), !.am = s.t * frame_stride(in),
            !.eb = s.t * in.n_edges, !.time = s.t,
            !.n = Min(Blocks(in.n_edges) * n_threads, in.n_edges)]
    [] s.pc = "bwd_next_frame" ->
         [KA("next_frame") EXCEPT !.fwd = FALSE, !.prev = s.d_prev, !.next = s.d_next,
            !.num_emissions = sequence_stride(in), !.am = (s.t - 1) * frame_stride(in),
            !.eb = (s.t - 1) * in.n_edges, !.time = s.t - 1,
            !.n = Min(Blocks(in.n_edges) * n_threads, in.n_edges)]
    [] s.pc = "compute_result" ->
         [KA("compute_result") EXCEPT !.frame_stride = frame_stride(in),
            !.seq_stride = sequence_stride(in),
            !.n = Min(Blocks(in.n_frames * in.n_edges) * n_threads, in.n_frames * in.n_edges)]
    [] s.pc = "s_fwd_next_frame" ->
         [KA("next_frame_fwd") EXCEPT !.time = s.t,
            !.eb = s.t * in.n_seg_frames * in.n_edges,
            !.n = Min(Blocks(in.n_edges) * n_threads, in.n_edges)]
    [] s.pc = "s_bwd_next_frame" ->
         [KA("next_frame_bwd") EXCEPT !.fwd = FALSE, !.time = s.t - 1,
            !.eb = (s.t - 1) * in.n_seg_frames * in.n_edges,
            !.n = Min(Blocks(in.n_edges) * n_threads, in.n_edges)]
    [] s.pc = "s_compute_targets" ->
         [KA("compute_targets") EXCEPT
            !.n = Min(Blocks(in.n_tot_frames * in.n_seg_frames * in.n_edges) * n_threads,
                      in.n_tot_frames * in.n_seg_frames * in.n_edges)]

\* the host code between the end of the kernel of statement s.pc and the next
\* statement
AfterKernel(in, s) ==
  CASE s.pc = "fwd_next_frame"    -> [s EXCEPT !.pc = "fwd_swap"]
    [] s.pc = "bwd_next_frame"    -> [s EXCEPT !.pc = "bwd_swap"]
    [] s.pc = "compute_result"    ->
         [s EXCEPT !.pc = IF in.tensorflow THEN "remove_inf" ELSE "free"]
    [] s.pc = "s_fwd_next_frame"  ->
         [s EXCEPT !.t = s.t + 1,
                   !.pc = IF s.t + 1 < in.n_tot_frames THEN "s_fwd_fill" ELSE "s_bwd_fill_all"]
    [] s.pc = "s_bwd_next_frame"  ->
         [s EXCEPT !.t = s.t - 1,
                   !.pc = IF s.t - 1 > 0 THEN "s_bwd_fill" ELSE "s_framewise_sum"]
    [] s.pc = "s_compute_targets" -> [s EXCEPT !.pc = "s_free"]

\* one statement of FastBaumWelchOp.c_fw_code that is not such a kernel launch
BaseStmt(in, s) ==
  CASE s.pc = "assert" ->
         [s EXCEPT !.pc = IF in.n_frames > 0 THEN "fill_edge_buffer" ELSE "aborted"]
    [] s.pc = "fill_edge_buffer" ->
         [s EXCEPT !.pc = "fill_state_buffer",
                   !.edge_buffer = fill_array(@, 0, Zero, in.n_edges * in.n_frames,
                                              Blocks(in.n_edges * in.n_frames))]
    [] s.pc = "fill_state_buffer" ->
         [s EXCEPT !.pc = "set_start_states",
                   !.state_buffer = fill_array(@, s.d_prev, INF, in.n_states, Blocks(in.n_states))]
    [] s.pc = "set_start_states" ->
         [s EXCEPT !.pc = IF 0 < in.n_frames THEN "fwd_fill" ELSE "bwd_fill_prev",
                   !.t = 0,
                   !.state_buffer = set_start_states(@, s.d_prev, in)]
    [] s.pc = "fwd_fill" ->
         [s EXCEPT !.pc = "fwd_next_frame",
                   !.state_buffer = fill_array(@, s.d_next, INF, in.n_states, Blocks(in.n_states))]
    [] s.pc = "fwd_swap" ->
         [s EXCEPT !.pc = IF s.t + 1 < in.n_frames THEN "fwd_fill" ELSE "bwd_fill_prev",
                   !.t = s.t + 1, !.d_prev = s.d_next, !.d_next = s.d_prev]
    [] s.pc = "bwd_fill_prev" ->
         [s EXCEPT !.pc = IF in.n_frames > 0 THEN "bwd_init" ELSE "normalize",
                   !.t = in.n_frames,
                   !.state_buffer = fill_array(@, s.d_prev, INF, in.n_states, Blocks(in.n_states))]
    [] s.pc = "bwd_init" ->
         [s EXCEPT !.pc = "bwd_fill",
                   !.state_buffer = init_bwd_state_buffer(@, s.d_prev, in, s.t - 1, in.n_frames - 1)]
    [] s.pc = "bwd_fill" ->
         [s EXCEPT !.pc = "bwd_next_frame",
                   !.state_buffer = fill_array(@, s.d_next, INF, in.n_states, Blocks(in.n_states))]
    [] s.pc = "bwd_swap" ->
         [s EXCEPT !.pc = IF s.t - 1 > 0 THEN "bwd_init" ELSE "normalize",
                   !.t = s.t - 1, !.d_prev = s.d_next, !.d_next = s.d_prev]
    [] s.pc = "normalize" ->
         LET r == normalize(in, s.edge_buffer, s.sum_output)
         IN  [s EXCEPT !.pc = "fill_out", !.edge_buffer = r.edge_buffer,
                       !.sum_output = r.sum_output]
    [] s.pc = "fill_out" ->
         [s EXCEPT !.pc = "compute_result",
                   !.out = fill_array(@, 0, INF, in.n_frames * in.n_seqs * in.n_emissions,
                                      Blocks(in.n_frames * in.n_seqs * in.n_emissions))]
    [] s.pc = "remove_inf" ->
         [s EXCEPT !.pc = "free",
                   !.out = remove_inf(@, in.n_frames * in.n_seqs * in.n_emissions,
                                      Blocks(in.n_frames * in.n_seqs * in.n_emissions))]
    [] s.pc = "free" -> [s EXCEPT !.pc = "done"]

\* one statement of SegmentFastBaumWelchOp.c_fw_code that is not such a kernel
\* launch; t is an unsigned of 32 bits.  A posterior weight is the number
\* exp(-x) itself, so its 0.0 is the fraction 0/1
SegStmt(in, s) ==
  LET K  == in.n_seg_frames
      n_ringbuffer_frames == K + 1
  IN
  CASE s.pc = "s_assert" -> [s EXCEPT !.pc = "s_fill_edge_buffer"]
    [] s.pc = "s_fill_edge_buffer" ->
         [s EXCEPT !.pc = "s_fill_state_buffer",
                   !.edge_buffer = fill_array(@, 0, INF, in.n_tot_frames * K * in.n_edges,
                                              Blocks(in.n_tot_frames * K * in.n_edges))]
    [] s.pc = "s_fill_state_buffer" ->
         [s EXCEPT !.pc = "s_fill_norm_factors",
                   !.state_buffer = fill_array(@, 0, INF, in.n_states * n_ringbuffer_frames,
                                               Blocks(in.n_states * n_ringbuffer_frames))]
    [] s.pc = "s_fill_norm_factors" ->
         [s EXCEPT !.pc = "s_fill_posterior_weights",
                   !.sum_output = fill_array(@, 0, Zero, in.n_batches * K, Blocks(in.n_batches * K))]
    [] s.pc = "s_fill_posterior_weights" ->
         [s EXCEPT !.pc = "s_set_start_states",
                   !.post_weights = fill_array(@, 0, INF, in.n_batches * K, Blocks(in.n_batches * K))]
    [] s.pc = "s_set_start_states" ->
         [s EXCEPT !.pc = IF 0 < in.n_tot_frames THEN "s_fwd_fill" ELSE "s_bwd_fill_all",
                   !.t = 0,
                   !.state_buffer = set_start_states(@, 0, in)]
    [] s.pc = "s_fwd_fill" ->
         LET prev == usub1_mod(s.t, n_ringbuffer_frames) * in.n_states
         IN  [s EXCEPT !.pc = "s_fwd_next_frame", !.d_prev = prev,
                       !.state_buffer = fill_array(@, prev, INF, in.n_states,
                                                   Blocks(in.n_batches * K))]
    [] s.pc = "s_bwd_fill_all" ->
         [s EXCEPT !.pc = IF in.n_tot_frames > 0 THEN "s_bwd_fill" ELSE "s_framewise_sum",
                   !.t = in.n_tot_frames,
                   !.state_buffer = fill_array(@, 0, INF, in.n_states * n_ringbuffer_frames,
                                               Blocks(in.n_states * n_ringbuffer_frames))]
    [] s.pc = "s_bwd_fill" ->
         LET next == usub1_mod(s.t, n_ringbuffer_frames) * in.n_states
             prev == (s.t % n_ringbuffer_frames) * in.n_states
         IN  [s EXCEPT !.pc = "s_bwd_init", !.d_next = next, !.d_prev = prev,
                       !.state_buffer = fill_array(@, next, INF, in.n_states, Blocks(in.n_states))]
    [] s.pc = "s_bwd_init" ->
         [s EXCEPT !.pc = "s_bwd_next_frame",
                   !.state_buffer = seg_init_bwd_state_buffer(@, s.d_prev, in, s.t - 1)]
    [] s.pc = "s_framewise_sum" ->
         [s EXCEPT !.pc = IF in.segmentwise_normalization THEN "s_merge_framewise_sum"
                          ELSE "s_posterior_weights",
                   !.sum_output = compute_framewise_sum(in, s.edge_buffer, @,
                                    Min(Blocks(in.n_tot_frames * K) * n_threads, in.n_tot_frames * K))]
    [] s.pc = "s_merge_framewise_sum" ->
         [s EXCEPT !.pc = "s_posterior_weights",
                   !.sum_output = merge_framewise_sum(in, @)]
    [] s.pc = "s_posterior_weights" ->
         [s EXCEPT !.pc = "s_fill_out",
                   !.post_weights = compute_posterior_weights(in, s.state_buffer, s.sum_output, @)]
    [] s.pc = "s_fill_out" ->
         [s EXCEPT !.pc = "s_compute_targets",
                   !.out = fill_array(@, 0, INF, in.n_batches * K * in.n_emissions,
                                      Blocks(in.n_batches * K * in.n_emissions))]
    [] s.pc = "s_free" -> [s EXCEPT !.pc = "done"]

BasePcs == {"assert", "fill_edge_buffer", "fill_state_buffer", "set_start_states", "fwd_fill",
            "fwd_swap", "bwd_fill_prev", "bwd_init", "bwd_fill", "bwd_swap", "normalize",
            "fill_out", "remove_inf", "free"}
SegPcs  == {"s_assert", "s_fill_edge_buffer", "s_fill_state_buffer", "s_fill_norm_factors",
            "s_fill_posterior_weights", "s_set_start_states", "s_fwd_fill", "s_bwd_fill_all",
            "s_bwd_fill", "s_bwd_init", "s_framewise_sum", "s_merge_framewise_sum",
            "s_posterior_weights", "s_fill_out", "s_free"}

HostStmt(in, s) == IF s.pc \in BasePcs THEN BaseStmt(in, s) ELSE SegStmt(in, s)

\* one statement, a kernel launch running to its end
Step(in, s) ==
  IF s.pc \in KernelPcs
  THEN LET a == KernelArgs(in, s) IN AfterKernel(in, RunKernel(in, a, a.n, s))
  ELSE HostStmt(in, s)

RECURSIVE Run(_, _)
Run(in, s) == IF s.pc \in {"done", "aborted"} THEN s ELSE Run(in, Step(in, s))


----------------------------------------------------------------------------
(* The call as a state machine *)

Cur == [pc |-> pc, t |-> t, d_prev |-> d_prev, d_next |-> d_next,
        state_buffer |-> state_buffer, edge_buffer |-> edge_buffer, out |-> out,
        sum_output |-> sum_output, post_weights |-> post_weights]

Set(n) ==
  /\ pc' = n.pc
  /\ t' = n.t
  /\ d_prev' = n.d_prev
  /\ d_next' = n.d_next
  /\ state_buffer' = n.state_buffer
  /\ edge_buffer' = n.edge_buffer
  /\ out' = n.out
  /\ sum_output' = n.sum_output
  /\ post_weights' = n.post_weights

\* the state at the entry of c_fw_code: the buffers hold what was in memory
InitState(in) ==
  IF in.engine = "base"
  THEN [pc |-> "assert", t |-> 0, d_prev |-> 0, d_next |-> in.n_states,
        state_buffer |-> Arr(2 * in.n_states, in.garbage),
        edge_buffer  |-> Arr(in.n_edges * in.n_frames, in.garbage),
        out          |-> Arr(in.n_frames * in.n_seqs * in.n_emissions, in.garbage),
        sum_output   |-> Arr(in.n_frames * in.n_seqs, in.garbage),
        post_weights |-> Arr(0, in.garbage)]
  ELSE [pc |-> "s_assert", t |-> 0, d_prev |-> 0, d_next |-> 0,
        state_buffer |-> Arr((in.n_seg_frames + 1) * in.n_states, in.garbage),
        edge_buffer  |-> Arr(in.n_tot_frames * in.n_seg_frames * in.n_edges, in.garbage),
        out          |-> Arr(in.n_seg_frames * in.n_batches * in.n_emissions, in.garbage),
        sum_output   |-> Arr(in.n_seg_frames * in.n_batches, in.garbage),
        post_weights |-> Arr(in.n_seg_frames * in.n_batches, in.garbage)]

\* the whole call
Call(in) == Run(in, InitState(in))

\* the first k statements of the call, every kernel running thread by thread
RECURSIVE RunTo(_, _, _)
RunTo(in, s, k) == IF k = 0 THEN s ELSE Step(in, RunTo(in, s, k - 1))

\* history: the number of statements that have finished, the number of finished
\* kernels of the forward and of the backward sweep, and the sweep and frame of
\* the last per-step clear that has finished
Hist0 == [steps |-> 0, fwd |-> 0, bwd |-> 0, clear |-> <<"none", 0>>]

HistStmt(h, s) ==
  CASE s.pc \in {"fwd_fill", "s_fwd_fill"} ->
         [h EXCEPT !.steps = @ + 1, !.clear = <<"fwd", s.t>>]
    [] s.pc \in {"bwd_fill", "s_bwd_fill"} ->
         [h EXCEPT !.steps = @ + 1, !.clear = <<"bwd", s.t - 1>>]
    [] OTHER -> [h EXCEPT !.steps = @ + 1]

HistKernel(h, s) ==
  CASE s.pc \in {"fwd_next_frame", "s_fwd_next_frame"} ->
         [h EXCEPT !.steps = @ + 1, !.fwd = @ + 1]
    [] s.pc \in {"bwd_next_frame", "s_bwd_next_frame"} ->
         [h EXCEPT !.steps = @ + 1, !.bwd = @ + 1]
    [] OTHER -> [h EXCEPT !.steps = @ + 1]

\* kernels of one stream run one after the other: the next statement starts
\* when no thread of the launched kernel is left
kernel_finished_nowait(w) == TRUE

kernel_finished(w) == \A idx \in DOMAIN w : w[idx].pc = "done"

\* a statement that is not a launch of a kernel with atomics
Host(l) ==
  /\ pc = l
  /\ ~running
  /\ Set(HostStmt(inp, Cur))
  /\ hist' = HistStmt(hist, Cur)
  /\ UNCHANGED <<avars, inp, kvars>>

Launch(l) ==
  /\ pc = l
  /\ ~running
  /\ running' = TRUE
  /\ ka' = KernelArgs(inp, Cur)
  /\ wk' = Arr(KernelArgs(inp, Cur).n, Thread0)
  /\ UNCHANGED <<avars, inp, pvars, hist>>

Thread(idx) ==
  /\ wk[idx].pc # "done"
  /\ LET r == ThreadStep(inp, ka, idx, wk[idx], Cur)
     IN  /\ wk' = [wk EXCEPT ![idx] = r.w]
         /\ Set(r.s)
  /\ UNCHANGED <<avars, inp, running, ka, hist>>

Complete(l) ==
  /\ pc = l
  /\ running
  /\ kernel_finished(wk)
  /\ running' = FALSE
  /\ Set(AfterKernel(inp, Cur))
  /\ hist' = HistKernel(hist, Cur)
  /\ UNCHANGED <<avars, inp, ka, wk>>

\* a kernel launch whose threads run one after the other within the step
Kernel(l) ==
  /\ pc = l
  /\ Set(Step(inp, Cur))
  /\ hist' = HistKernel(hist, Cur)
  /\ UNCHANGED <<avars, inp, kvars>>



----------------------------------------------------------------------------
(* Inputs.  Sequence q owns the states 2q and 2q + 1, its start state is    *)
(* 2q and its end state 2q + 1; there are two emission labels.             *)

Edge(from, to, emis, seq, w) == [from |-> from, to |-> to, emis |-> emis, seq |-> seq, w |-> w]

\* the edges a left-to-right graph of the first sequence can have
Cands == << <<0, 0, 0>>, <<0, 0, 1>>, <<0, 1, 0>>, <<0, 1, 1>>, <<1, 1, 0>>, <<1, 1, 1>> >>

\* the strictly increasing sequences over 1..n of length 1..k
IncSeqs(n, k) ==
  {q \in UNION {[1..l -> 1..n] : l \in 1..k} :
     \A i \in DOMAIN q : \A j \in DOMAIN q : i < j => q[i] < q[j]}

\* the graph of the second sequence: a loop on its start state and an edge
\* to its end state
SecondGraph == << Edge(2, 2, 0, 1, Zero), Edge(2, 3, 1, 1, Third) >>

Weights == <<Zero, Half>>
AmVals  == <<Zero, Half, Third>>
AmPats  == {<<0, 0, 0>>, <<0, 1, 0>>, <<1, 0, 1>>, <<1, 1, 2>>}
AmPat0  == <<1, 1, 2>>
\* what the padding cells of am_scores hold, by emission label
Pads    == {<<NAN, NAN>>, <<INF, NEG_INF>>, <<NEG_INF, Half>>, <<Half, INF>>}
NoPad   == <<Zero, Zero>>

\* the edges of the first sequence for the candidates g
FirstGraph(g) ==
  [i \in DOMAIN g |->
     Edge(Cands[g[i]][1], Cands[g[i]][2], Cands[g[i]][3], 0, Weights[(i % 2) + 1])]

\* am_scores[tt][q][m]: pad[m] in the padding, +inf in the frame hole of label 0
\* of the first sequence, else a value that depends on frame, label and sequence
AmScore(tt, q, m, L, pat, hole, pad) ==
  IF tt >= L[q + 1] THEN pad[m + 1]
  ELSE IF tt = hole /\ q = 0 /\ m = 0 THEN INF
  ELSE AmVals[((pat[1] * tt + pat[2] * m + q + pat[3]) % 3) + 1]

\* The inputs of FastBaumWelchOp for T frames, the sequence lengths L and the
\* edges E
BaseInput(T, L, E, n_states, n_emissions, S, En, am, garbage, tf) ==
  [engine |-> "base", tensorflow |-> tf,
   n_frames |-> T, n_seqs |-> Len(L), n_emissions |-> n_emissions,
   n_states |-> n_states, n_edges |-> Len(E),
   from          |-> [e \in 0..(Len(E) - 1) |-> E[e + 1].from],
   to            |-> [e \in 0..(Len(E) - 1) |-> E[e + 1].to],
   emission_idxs |-> [e \in 0..(Len(E) - 1) |-> E[e + 1].emis],
   sequence_idxs |-> [e \in 0..(Len(E) - 1) |-> E[e + 1].seq],
   weights       |-> [e \in 0..(Len(E) - 1) |-> E[e + 1].w],
   start_states  |-> [q \in 0..(Len(L) - 1) |-> S[q + 1]],
   end_states    |-> [q \in 0..(Len(L) - 1) |-> En[q + 1]],
   index_stride  |-> Len(L),
   index         |-> [i \in 0..(T * Len(L) - 1) |->
                        IF i \div Len(L) < L[(i % Len(L)) + 1] THEN 1 ELSE 0],
   am_scores     |-> am,
   L |-> L,
   garbage |-> garbage]

GraphInput(T, L, E, pat, hole, pad, tf) ==
  BaseInput(T, L, E, 2 * Len(L), 2,
            [q \in 1..Len(L) |-> 2 * (q - 1)], [q \in 1..Len(L) |-> 2 * q - 1],
            [i \in 0..(T * Len(L) * 2 - 1) |->
               AmScore(i \div (Len(L) * 2), (i \div 2) % Len(L), i % 2, L, pat, hole, pad)],
            NAN, tf)

\* the sequence lengths of a batch of T frames: the longest sequence has T frames
Lengths(T) ==
  {<<T>>} \cup {<<T, l>> : l \in 0..T} \cup {<<l, T>> : l \in 0..(T - 1)}

Padded(L, T) == \E q \in DOMAIN L : L[q] < T

\* the patterns of am_scores without a hole, and one pattern with each hole
AmHoles(T) == {<<pat, -1>> : pat \in AmPats} \cup {<<AmPat0, hole>> : hole \in 0..(T - 1)}

\* graphs of at most maxE edges for the first sequence, batches of at most
\* maxT frames
GraphInputs(maxT, maxE) ==
  UNION {
    {GraphInput(T, L, FirstGraph(g) \o (IF Len(L) = 2 THEN SecondGraph ELSE <<>>),
                ph[1], ph[2], NoPad, FALSE) :
       L \in Lengths(T), g \in IncSeqs(Len(Cands), maxE), ph \in AmHoles(T)} :
    T \in 1..maxT}

\* the same for the TensorFlow build
TfInputs(maxT, maxE) ==
  UNION {
    {GraphInput(T, L, FirstGraph(g) \o (IF Len(L) = 2 THEN SecondGraph ELSE <<>>),
                AmPat0, -1, NoPad, TRUE) :
       L \in Lengths(T), g \in IncSeqs(Len(Cands), maxE)} :
    T \in 1..maxT}

\* batches with padding, the padding cells of am_scores holding pad
PaddedInputs(maxT, maxE) ==
  UNION {
    {GraphInput(T, L, FirstGraph(g) \o SecondGraph, AmPat0, -1, pad, FALSE) :
       L \in {l \in Lengths(T) : Padded(l, T)}, g \in IncSeqs(Len(Cands), maxE),
       pad \in Pads} :
    T \in 1..maxT}

\* Chains: sequence q (from 1) is a single path of L[q] edges of weight u over
\* L[q] + 1 states of its own, the k-th edge emitting label (k - 1) % 2
RECURSIVE ChainOff(_, _)
ChainOff(L, q) == IF q = 1 THEN 0 ELSE ChainOff(L, q - 1) + L[q - 1] + 1

ChainEdges(L, q, u) ==
  [k \in 1..L[q] |-> Edge(ChainOff(L, q) + k - 1, ChainOff(L, q) + k, (k - 1) % 2, q - 1, u)]

ChainInput(T, L, u, pat, hole) ==
  BaseInput(T, L,
            ChainEdges(L, 1, u) \o (IF Len(L) = 2 THEN ChainEdges(L, 2, u) ELSE <<>>),
            ChainOff(L, Len(L) + 1), 2,
            [q \in 1..Len(L) |-> ChainOff(L, q)], [q \in 1..Len(L) |-> ChainOff(L, q) + L[q]],
            [i \in 0..(T * Len(L) * 2 - 1) |->
               AmScore(i \div (Len(L) * 2), (i \div 2) % Len(L), i % 2, L, pat, hole, NoPad)],
            NAN, FALSE)

ChainInputs(maxT) ==
  UNION {
    {ChainInput(T, L, u, ph[1], ph[2]) :
       L \in {l \in Lengths(T) : \A q \in DOMAIN l : l[q] >= 1},
       u \in {Zero, Half}, ph \in AmHoles(T)} :
    T \in 1..maxT}

\* The inputs of SegmentFastBaumWelchOp for the graph and scores of the base
\* input b and segments of one frame: every valid (time, sequence) of b has a
\* batch slot of its own, numbered by time and then by sequence; index has the
\* shape (1, n_batches) and marks every slot; one length model of score 0 and
\* the am score scale 1.  oob is what the memory behind index holds.
SlotCells(b) ==
  {c \in 0..(b.n_frames * b.n_seqs - 1) : b.index[c] = 1}
SlotOf(b, c) == Cardinality({c2 \in SlotCells(b) : c2 < c})
CellOfSlot(b, slot) == CHOOSE c \in SlotCells(b) : SlotOf(b, c) = slot

SegOfBase(b, oob, segnorm) ==
  LET nb == Cardinality(SlotCells(b))
  IN  [engine |-> "segmental", base |-> b,
       segmentwise_normalization |-> segnorm,
       n_seg_frames |-> 1, n_batches |-> nb, n_emissions |-> b.n_emissions,
       n_tot_frames |-> b.n_frames, n_seqs |-> b.n_seqs, n_edges |-> b.n_edges,
       n_states |-> b.end_states[b.n_seqs - 1] + 1,
       from |-> b.from, to |-> b.to, emission_idxs |-> b.emission_idxs,
       lenmod_idxs |-> [e \in 0..(b.n_edges - 1) |-> 0],
       sequence_idxs |-> b.sequence_idxs, weights |-> b.weights,
       length_models |-> Arr(1, Zero),
       start_states |-> b.start_states, end_states |-> b.end_states,
       batch_idxs |-> [c \in 0..(b.n_frames * b.n_seqs - 1) |->
                         IF b.index[c] = 1 THEN SlotOf(b, c) ELSE -1],
       index |-> Arr(nb, 1), index_oob |-> Arr(nb, oob), am_oob |-> NAN,
       am_scores |-> [i \in 0..(nb * b.n_emissions - 1) |->
                        b.am_scores[CellOfSlot(b, i \div b.n_emissions) * b.n_emissions
                                    + (i % b.n_emissions)]],
       am_score_scales |-> Arr(1, 1), n_am_score_scales |-> 1, epoch |-> 0,
       garbage |-> b.garbage]

SegmentalInputs(maxT, maxE) ==
  UNION {
    {SegOfBase(GraphInput(T, L, FirstGraph(g) \o (IF Len(L) = 2 THEN SecondGraph ELSE <<>>),
                          AmPat0, -1, NoPad, FALSE), oob, segnorm) :
       L \in {<<T>>, <<T, T - 1>>}, g \in IncSeqs(Len(Cands), maxE),
       oob \in {0, 1}, segnorm \in BOOLEAN} :
    T \in 1..maxT}

\* The inputs of SegmentFastBaumWelchOp for the graph of the base input b and
\* segments of up to K >= 2 frames: slots as above; index[i][slot] marks the
\* segments of i + 1 frames that end within their sequence; the am score of
\* such a segment is that of its last frame in b and +inf for the others; one
\* length model with the scores 0, -log(1/2), 0, ...
SegFits(b, c, i) ==
  (c \div b.n_seqs) + i < b.n_frames /\ b.index[c + i * b.n_seqs] = 1

SegInput(b, K, segnorm) ==
  LET nb == Cardinality(SlotCells(b))
  IN  [engine |-> "segmental", base |-> b,
       segmentwise_normalization |-> segnorm,
       n_seg_frames |-> K, n_batches |-> nb, n_emissions |-> b.n_emissions,
       n_tot_frames |-> b.n_frames, n_seqs |-> b.n_seqs, n_edges |-> b.n_edges,
       n_states |-> b.end_states[b.n_seqs - 1] + 1,
       from |-> b.from, to |-> b.to, emission_idxs |-> b.emission_idxs,
       lenmod_idxs |-> [e \in 0..(b.n_edges - 1) |-> 0],
       sequence_idxs |-> b.sequence_idxs, weights |-> b.weights,
       length_models |-> [i \in 0..(K - 1) |-> IF i % 2 = 0 THEN Zero ELSE Half],
       start_states |-> b.start_states, end_states |-> b.end_states,
       batch_idxs |-> [c \in 0..(b.n_frames * b.n_seqs - 1) |->
                         IF b.index[c] = 1 THEN SlotOf(b, c) ELSE -1],
       index |-> [j \in 0..(K * nb - 1) |->
                    IF SegFits(b, CellOfSlot(b, j % nb), j \div nb) THEN 1 ELSE 0],
       index_oob |-> Arr(nb, 0), am_oob |-> NAN,
       am_scores |-> [j \in 0..(nb * K * b.n_emissions - 1) |->
                        LET c == CellOfSlot(b, j \div (K * b.n_emissions))
                            i == (j \div b.n_emissions) % K
                        IN  IF SegFits(b, c, i)
                            THEN b.am_scores[(c + i * b.n_seqs) * b.n_emissions
                                             + (j % b.n_emissions)]
                            ELSE INF],
       am_score_scales |-> Arr(1, 1), n_am_score_scales |-> 1, epoch |-> 0,
       garbage |-> b.garbage]

\* two parallel edges into the end state; a loop on each state and an edge
\* between them
SegGraphs == {<<3, 4>>, <<1, 3, 5>>}

\* segments of 2..maxK frames
SegmentInputs(maxT, maxK) ==
  UNION {
    {SegInput(GraphInput(T, L, FirstGraph(g) \o (IF Len(L) = 2 THEN SecondGraph ELSE <<>>),
                         AmPat0, -1, NoPad, FALSE), K, segnorm) :
       L \in {<<T>>, <<T, T - 1>>}, g \in SegGraphs, K \in 2..maxK,
       segnorm \in BOOLEAN} :
    T \in 1..maxT}

\* the input in with v < 0 in place of each -1 of batch_idxs, and x in the
\* memory outside am_scores
WithSentinel(in, v, x) ==
  [in EXCEPT !.batch_idxs = [c \in DOMAIN @ |-> IF @[c] < 0 THEN v ELSE @[c]],
             !.am_oob = x]

\* segments of one frame, a second sequence that is one frame shorter than the
\* batch, and a negative batch index other than -1 at its padding
SentinelInputs(maxT) ==
  UNION {
    {WithSentinel(SegOfBase(GraphInput(T, <<T, T - 1>>, FirstGraph(g) \o SecondGraph,
                                       AmPat0, -1, NoPad, FALSE), 1, FALSE), v, x) :
       g \in SegGraphs, v \in {-2, -3}, x \in {Zero, INF, NAN}} :
    T \in 1..maxT}

\* the scenario of one edge from the start to the end state and three frames
Scenario(tf) ==
  BaseInput(3, <<3>>, <<Edge(0, 1, 0, 0, Zero)>>, 2, 1, <<0>>, <<1>>, Arr(3, Zero), NAN, tf)

\* what the state buffer, the freshly allocated edge buffer and the output
\* tensors hold at the entry of a call, apart from NaN
PriorContents == {Zero, Half, INF, NEG_INF}

WithPrior(in, g) == [in EXCEPT !.garbage = g]

\* calls of the base engine that differ in the prior contents only
PriorInputs(maxT) ==
  UNION {
    {WithPrior(GraphInput(T, L, FirstGraph(g) \o (IF Len(L) = 2 THEN SecondGraph ELSE <<>>),
                          AmPat0, -1, NoPad, tf), c) :
       L \in {<<T>>, <<T, T - 1>>}, g \in SegGraphs, tf \in BOOLEAN, c \in PriorContents} :
    T \in 1..maxT}

SeqInputs ==
  GraphInputs(MaxT, MaxEdges) \cup TfInputs(MaxT, MaxEdges) \cup PaddedInputs(MaxT, MaxEdges)
    \cup ChainInputs(MaxT) \cup {Scenario(tf) : tf \in BOOLEAN}
    \cup SegmentalInputs(MaxT, MaxEdges) \cup SegmentInputs(MaxT, MaxSegFrames)
    \cup SentinelInputs(MaxT) \cup PriorInputs(MaxT)

----------------------------------------------------------------------------
(* The call, kernel by kernel *)

InitIdle ==
  /\ acell = INF /\ ainit = INF /\ aw = <<>>

InitCall(in) ==
  /\ inp = in
  /\ LET s == InitState(in)
     IN  /\ pc = s.pc /\ t = s.t /\ d_prev = s.d_prev /\ d_next = s.d_next
         /\ state_buffer = s.state_buffer /\ edge_buffer = s.edge_buffer
         /\ out = s.out /\ sum_output = s.sum_output /\ post_weights = s.post_weights
  /\ running = FALSE /\ ka = NoKernel /\ wk = <<>>
  /\ hist = Hist0

InitSeq == InitIdle /\ \E in \in SeqInputs : InitCall(in)

NextSeq ==
  \/ \E l \in BasePcs \cup SegPcs : Host(l)
  \/ \E l \in KernelPcs : Kernel(l)

SpecSeq == InitSeq /\ [][NextSeq]_vars

----------------------------------------------------------------------------
(* The call, thread by thread: the threads of a launched kernel take their  *)
(* steps in any order                                                       *)

MaxKernelThreads == 6    \* threads of the largest kernel launch

\* two parallel edges into the end state; a loop on each state and an edge
\* between them, all of one label
ThreadGraphs == {<<3, 4>>, <<1, 3, 5>>}

ThreadBases(maxT) ==
  UNION {
    {GraphInput(T, L, FirstGraph(g) \o (IF Len(L) = 2 THEN SecondGraph ELSE <<>>),
                AmPat0, -1, NoPad, FALSE) :
       L \in {<<T>>, <<T, T - 1>>}, g \in ThreadGraphs} :
    T \in 1..maxT}

\* the TensorFlow build, for the graph with the loops
ThreadTfBases(maxT) ==
  {GraphInput(T, <<T>>, FirstGraph(<<1, 3, 5>>), AmPat0, -1, NoPad, TRUE) : T \in 1..maxT}

ThreadInputs ==
  {in \in ThreadBases(MaxT) \cup ThreadTfBases(MaxT)
          \cup {SegOfBase(b, oob, FALSE) : b \in ThreadBases(MaxT), oob \in {0, 1}} :
     (IF in.engine = "base" THEN in.n_frames ELSE in.n_tot_frames) * in.n_edges
       <= MaxKernelThreads}

Init == InitIdle /\ \E in \in ThreadInputs : InitCall(in)

Next ==
  \/ \E l \in BasePcs \cup SegPcs : Host(l)
  \/ \E l \in KernelPcs : Launch(l)
  \/ \E idx \in DOMAIN wk : Thread(idx)
  \/ \E l \in KernelPcs : Complete(l)

Spec == Init /\ [][Next]_vars

----------------------------------------------------------------------------
(* Path probabilities, for stating the properties: a score is compared with *)
(* the sum over paths of the products of the probabilities along each path  *)

QAdd(a, b) == Norm(a[1] * b[2] + b[1] * a[2], a[2] * b[2])
QMul(a, b) == Norm(a[1] * b[1], a[2] * b[2])
QDiv(a, b) == Norm(a[1] * b[2], a[2] * b[1])
QZero == <<0, 1>>
QOne  == <<1, 1>>

RECURSIVE QSum(_, _)
\* the sum of f[i] over the i in the finite set D
QSum(f, D) ==
  IF D = {} THEN QZero
  ELSE LET x == CHOOSE i \in D : TRUE IN QAdd(f[x], QSum(f, D \ {x}))

Valid(in, tt, q) == in.index[tt * in.index_stride + q] = 1
Cell(in, tt, q, m) == tt * in.n_seqs * in.n_emissions + q * in.n_emissions + m
EdgeIds(in) == 0..(in.n_edges - 1)
EdgeProb(in, tt, e) ==
  QMul(in.weights[e], in.am_scores[Cell(in, tt, in.sequence_idxs[e], in.emission_idxs[e])])

\* forward_score(st, tt): all paths of tt edges from a start state to st
RECURSIVE Alpha(_, _, _)
Alpha(in, st, tt) ==
  IF tt = 0 THEN (IF \E q \in 0..(in.n_seqs - 1) : in.start_states[q] = st THEN QOne ELSE QZero)
  ELSE QSum([e \in EdgeIds(in) |-> QMul(Alpha(in, in.from[e], tt - 1), EdgeProb(in, tt - 1, e))],
            {e \in EdgeIds(in) : in.to[e] = st})

\* backward_score(st, tt): all paths from st at frame tt to the end state of
\* its sequence at the end of the sequence, over the valid frames
RECURSIVE Beta(_, _, _)
Beta(in, st, tt) ==
  IF \E q \in 0..(in.n_seqs - 1) : in.end_states[q] = st /\ in.L[q + 1] = tt THEN QOne
  ELSE IF tt >= in.n_frames THEN QZero
  ELSE QSum([e \in EdgeIds(in) |-> QMul(EdgeProb(in, tt, e), Beta(in, in.to[e], tt + 1))],
            {e \in EdgeIds(in) : in.from[e] = st /\ Valid(in, tt, in.sequence_idxs[e])})

\* the probability of all complete paths of sequence q
Total(in, q) == Alpha(in, in.end_states[q], in.L[q + 1])

\* log-sum-exp over the emission labels of x[tt, q, :]
LogSumExp(in, x, tt, q) ==
  QSum([m \in 0..(in.n_emissions - 1) |-> x[Cell(in, tt, q, m)]], 0..(in.n_emissions - 1))

BaseDone == inp.engine = "base" /\ pc = "done"

----------------------------------------------------------------------------
(* Properties of the base engine *)

\* C1 as stated: at every valid (t, seq) the log-sum-exp over the labels of
\* output[t, seq, :] is 0
C1_AllValidSumToOne ==
  BaseDone =>
    \A tt \in 0..(inp.n_frames - 1) : \A q \in 0..(inp.n_seqs - 1) :
      Valid(inp, tt, q) => LogSumExp(inp, out, tt, q) = Zero

\* C1: at every valid (t, seq) of a sequence with a complete start-to-end path
\* of finite cost, the log-sum-exp over the labels of output[t, seq, :] is 0
C1_PosteriorsSumToOne ==
  BaseDone =>
    \A tt \in 0..(inp.n_frames - 1) : \A q \in 0..(inp.n_seqs - 1) :
      (Valid(inp, tt, q) /\ Total(inp, q) # QZero) =>
        LogSumExp(inp, out, tt, q) = Zero

C1_Witness ==
  /\ BaseDone
  /\ \E tt \in 0..(inp.n_frames - 1) : \E q \in 0..(inp.n_seqs - 1) :
       /\ Valid(inp, tt, q) /\ Total(inp, q) # QZero
       /\ \A m \in 0..(inp.n_emissions - 1) : isfinite(out[Cell(inp, tt, q, m)])
       /\ \E m \in 0..(inp.n_emissions - 1) : out[Cell(inp, tt, q, m)] # Zero

\* C2: when both sweeps are complete and normalize has not run, edge_buffer[t][e]
\* is forward_score(from(e), t) + weight(e) + am_scores[t][seq(e)][emission(e)]
\* + backward_score(to(e), t + 1), and +inf when the source is unreachable
\* forward or the target unreachable backward
C2_EdgeBufferIsPathCost ==
  (inp.engine = "base" /\ pc = "normalize") =>
    \A tt \in 0..(inp.n_frames - 1) : \A e \in EdgeIds(inp) :
      edge_buffer[tt * inp.n_edges + e] =
        IF Alpha(inp, inp.from[e], tt) = QZero \/ Beta(inp, inp.to[e], tt + 1) = QZero
        THEN INF
        ELSE fadd(fadd(fadd(Alpha(inp, inp.from[e], tt), inp.weights[e]),
                       inp.am_scores[Cell(inp, tt, inp.sequence_idxs[e], inp.emission_idxs[e])]),
                  Beta(inp, inp.to[e], tt + 1))

C2_Witness ==
  /\ inp.engine = "base" /\ pc = "normalize"
  /\ inp.n_frames >= 2
  /\ \E e \in EdgeIds(inp) :
       /\ isfinite(edge_buffer[e]) /\ edge_buffer[e] # Zero
       /\ edge_buffer[e] # inp.weights[e]
  /\ \E e \in EdgeIds(inp) : isfinite(edge_buffer[inp.n_edges + e])
  /\ \E tt \in 0..(inp.n_frames - 1) : \E e \in EdgeIds(inp) :
       Valid(inp, tt, inp.sequence_idxs[e]) /\ edge_buffer[tt * inp.n_edges + e] = INF

\* C7 as stated: in the scenario output[t][0][0] = 0 and sums[t][0] = 0 for all t
C7_ScenarioOutputZero ==
  (BaseDone /\ inp \in {Scenario(tf) : tf \in BOOLEAN}) =>
    \A tt \in 0..2 : out[tt] = Zero /\ sum_output[tt] = Zero

\* C7: in the scenario no path of three edges exists, and the engine returns
\* output[t][0][0] = +inf (1e32 in the TensorFlow build) and sums[t][0] = 0 for
\* every t in 0..2
C7_ScenarioNoPath ==
  (BaseDone /\ inp \in {Scenario(tf) : tf \in BOOLEAN}) =>
    \A tt \in 0..2 : /\ out[tt] = (IF inp.tensorflow THEN BIG ELSE INF)
                     /\ sum_output[tt] = Zero

C7_Witness ==
  /\ BaseDone /\ inp = Scenario(FALSE)
  /\ out[0] = INF /\ out[2] = INF /\ sum_output[2] = Zero

\* the input with the am_scores of the cells that the mask marks as padding
\* replaced by pad
WithPadding(in, pad) ==
  [in EXCEPT !.am_scores =
     [i \in DOMAIN in.am_scores |->
        IF Valid(in, i \div frame_stride(in), (i \div in.n_emissions) % in.n_seqs)
        THEN in.am_scores[i]
        ELSE pad[(i % in.n_emissions) + 1]]]

\* C6: output and sums at every valid cell are those of the call whose am_scores
\* differ in the padding cells only (there holding 0.0), whatever the padding
\* cells hold: NaN, +inf, -inf or a finite score
C6_MaskingInvariance ==
  BaseDone =>
    LET r == Call(WithPadding(inp, NoPad))
    IN  \A tt \in 0..(inp.n_frames - 1) : \A q \in 0..(inp.n_seqs - 1) :
          Valid(inp, tt, q) =>
            /\ sum_output[tt * inp.n_seqs + q] = r.sum_output[tt * inp.n_seqs + q]
            /\ \A m \in 0..(inp.n_emissions - 1) :
                 out[Cell(inp, tt, q, m)] = r.out[Cell(inp, tt, q, m)]

C6_Witness ==
  /\ BaseDone
  /\ \E q \in 0..(inp.n_seqs - 1) :
       /\ inp.L[q + 1] > 0 /\ inp.L[q + 1] < inp.n_frames
       /\ inp.am_scores[Cell(inp, inp.L[q + 1], q, 0)] = NEG_INF
       /\ inp.am_scores[Cell(inp, inp.L[q + 1], q, 1)] = Half
       /\ isfinite(out[Cell(inp, 0, q, 0)]) /\ out[Cell(inp, 0, q, 0)] # Zero
       /\ isfinite(out[Cell(inp, 0, q, 1)])
       /\ sum_output[q] # Zero

\* the time-reversed problem: every edge (from, to) replaced by (to, from), start
\* and end states exchanged, the frames of am_scores in reverse order
Rev(in) ==
  [in EXCEPT !.from = in.to, !.to = in.from,
             !.start_states = in.end_states, !.end_states = in.start_states,
             !.am_scores =
               [i \in DOMAIN in.am_scores |->
                  in.am_scores[(in.n_frames - 1 - (i \div frame_stride(in))) * frame_stride(in)
                               + (i % frame_stride(in))]]]

\* C10: for a single fully valid sequence the output of the call on the
\* time-reversed problem is the output with the frames reversed:
\* output_rev[T-1-t][seq][m] = output[t][seq][m]
C10_TimeReversal ==
  (BaseDone /\ inp.n_seqs = 1 /\ inp.L[1] = inp.n_frames) =>
    LET r == Call(Rev(inp))
    IN  \A tt \in 0..(inp.n_frames - 1) : \A m \in 0..(inp.n_emissions - 1) :
          r.out[Cell(inp, inp.n_frames - 1 - tt, 0, m)] = out[Cell(inp, tt, 0, m)]

C10_Witness ==
  /\ BaseDone /\ inp.n_seqs = 1 /\ inp.L[1] = inp.n_frames /\ inp.n_frames >= 2
  /\ inp.n_edges >= 2
  /\ \E m \in 0..(inp.n_emissions - 1) :
       /\ isfinite(out[Cell(inp, 0, 0, m)]) /\ out[Cell(inp, 0, 0, m)] # Zero
       /\ out[Cell(inp, 0, 0, m)] # out[Cell(inp, inp.n_frames - 1, 0, m)]
       /\ Call(Rev(inp)).out[Cell(inp, inp.n_frames - 1, 0, m)] = out[Cell(inp, 0, 0, m)]

\* the edge of sequence q that leaves the state tt edges behind the start state
PathEdge(in, q, tt) ==
  CHOOSE e \in EdgeIds(in) :
    in.sequence_idxs[e] = q /\ in.from[e] = in.start_states[q] + tt

RECURSIVE SumL(_, _)
SumL(L, n) == IF n = 0 THEN 0 ELSE SumL(L, n - 1) + L[n]

\* the graph of every sequence is a single path from its start state to its end
\* state, one edge per frame of the sequence, all edges of one weight
IsChain(in) ==
  /\ in.engine = "base"
  /\ in.n_edges = SumL(in.L, in.n_seqs)
  /\ \A e \in EdgeIds(in) : in.weights[e] = in.weights[0]
  /\ \A q \in 0..(in.n_seqs - 1) :
       /\ in.L[q + 1] >= 1
       /\ in.end_states[q] = in.start_states[q] + in.L[q + 1]
       /\ \A tt \in 0..(in.L[q + 1] - 1) :
            \E e \in EdgeIds(in) :
              /\ in.sequence_idxs[e] = q
              /\ in.from[e] = in.start_states[q] + tt
              /\ in.to[e] = in.from[e] + 1

\* the sum of the weights, and of the am_scores, of the first n edges of the path
RECURSIVE PathWeights(_, _, _)
PathWeights(in, q, n) ==
  IF n = 0 THEN Zero
  ELSE fadd(PathWeights(in, q, n - 1), in.weights[PathEdge(in, q, n - 1)])

RECURSIVE PathAmScores(_, _, _)
PathAmScores(in, q, n) ==
  IF n = 0 THEN Zero
  ELSE fadd(PathAmScores(in, q, n - 1),
            in.am_scores[Cell(in, n - 1, q, in.emission_idxs[PathEdge(in, q, n - 1)])])

\* C8 as stated: on a chain, output is 0 at the label of the path's edge of each
\* valid frame and sums is the sum of the edge weights along the path
C8_ChainSumsAreWeights ==
  (BaseDone /\ IsChain(inp)) =>
    \A tt \in 0..(inp.n_frames - 1) : \A q \in 0..(inp.n_seqs - 1) :
      Valid(inp, tt, q) =>
        /\ out[Cell(inp, tt, q, inp.emission_idxs[PathEdge(inp, q, tt)])] = Zero
        /\ sum_output[tt * inp.n_seqs + q] = PathWeights(inp, q, inp.L[q + 1])

\* C8: on a chain whose am_scores along the path are finite, output is 0 at the
\* label of the path's edge of each valid frame and sums is the sum of the edge
\* weights plus the sum of the am_scores along the path
C8_ChainSumsArePathCost ==
  (BaseDone /\ IsChain(inp)) =>
    \A tt \in 0..(inp.n_frames - 1) : \A q \in 0..(inp.n_seqs - 1) :
      (Valid(inp, tt, q) /\ isfinite(PathAmScores(inp, q, inp.L[q + 1]))) =>
        /\ out[Cell(inp, tt, q, inp.emission_idxs[PathEdge(inp, q, tt)])] = Zero
        /\ sum_output[tt * inp.n_seqs + q] =
             fadd(PathWeights(inp, q, inp.L[q + 1]), PathAmScores(inp, q, inp.L[q + 1]))

C8_Witness ==
  /\ BaseDone /\ IsChain(inp) /\ inp.n_seqs = 2 /\ inp.weights[0] = Half
  /\ inp.L[1] >= 2 /\ inp.L[2] < inp.L[1]
  /\ isfinite(PathAmScores(inp, 0, inp.L[1])) /\ PathAmScores(inp, 0, inp.L[1]) # Zero
  /\ isfinite(PathAmScores(inp, 1, inp.L[2]))
  /\ sum_output[0] = fadd(PathWeights(inp, 0, inp.L[1]), PathAmScores(inp, 0, inp.L[1]))
  /\ sum_output[0] # PathWeights(inp, 0, inp.L[1])
  /\ out[Cell(inp, 1, 0, 1)] = Zero /\ out[Cell(inp, 1, 0, 0)] = INF

----------------------------------------------------------------------------
(* Properties of the segmental engine *)

SegDone == inp.engine = "segmental" /\ pc = "done"

\* the reads of index by init_bwd_state_buffer in the statement about to run
\* stay inside the index array of n_seg_frames * n_batches cells
IndexReadsInBounds ==
  (inp.engine = "segmental" /\ pc = "s_bwd_init") =>
    \A idx \in 0..(inp.n_seqs - 1) :
      LET batch_idx == inp.batch_idxs[(t - 1) * inp.n_seqs + idx]
      IN  ~(batch_idx < 0) => batch_idx + inp.n_batches < inp.n_seg_frames * inp.n_batches

\* output and normalization factors of the segmental call at the batch slot of
\* every valid (time, sequence) are those of the base engine
SameAsBase ==
  (SegDone /\ inp.n_seg_frames = 1) =>
    LET b == inp.base
        r == Call(b)
    IN  \A tt \in 0..(b.n_frames - 1) : \A q \in 0..(b.n_seqs - 1) :
          Valid(b, tt, q) =>
            LET slot == inp.batch_idxs[tt * inp.n_seqs + q]
            IN  /\ sum_output[slot] = r.sum_output[tt * b.n_seqs + q]
                /\ \A m \in 0..(b.n_emissions - 1) :
                     out[slot * inp.n_emissions + m] = r.out[Cell(b, tt, q, m)]

\* C9 as stated: with K = 1, length-model scores 0 and am score scale 1 the
\* segmental engine returns the output and the normalization factors of the base
\* engine at every valid cell, and every step of the segmental run is well
\* defined
C9_SegmentalReduction == IndexReadsInBounds /\ SameAsBase

----------------------------------------------------------------------------
(* Properties of the schedule of the kernels and their threads *)

Active == \E idx \in DOMAIN wk : wk[idx].pc # "done"
SweepFwd(a) == (a.name = "next_frame" /\ a.fwd) \/ a.name = "next_frame_fwd"
SweepBwd(a) == (a.name = "next_frame" /\ ~a.fwd) \/ a.name = "next_frame_bwd"
NFrames(in) == IF in.engine = "base" THEN in.n_frames ELSE in.n_tot_frames
PostSweepPcs == {"normalize", "fill_out", "compute_result", "remove_inf", "free",
                 "s_framewise_sum", "s_merge_framewise_sum", "s_posterior_weights",
                 "s_fill_out", "s_compute_targets", "s_free", "done"}

\* C4: while a thread of a sweep kernel for frame t has steps left, the kernel is
\* the only one in progress, the kernels of all earlier steps of the sweep have
\* finished with all their threads and the clear of this step's target buffer
\* has finished; a thread of the backward sweep runs only after all steps of the
\* forward sweep, and normalization and the scatter of the output only after
\* all steps of the backward sweep
C4_SweepOrdering ==
  /\ Active => running
  /\ running => (pc \in KernelPcs /\ ka = KernelArgs(inp, Cur))
  /\ (Active /\ SweepFwd(ka)) =>
       /\ hist.fwd = ka.time /\ hist.bwd = 0
       /\ hist.clear = <<"fwd", ka.time>>
  /\ (Active /\ SweepBwd(ka)) =>
       /\ hist.fwd = NFrames(inp) /\ hist.bwd = NFrames(inp) - 1 - ka.time
       /\ hist.clear = <<"bwd", ka.time>>
  /\ hist.bwd > 0 => hist.fwd = NFrames(inp)
  /\ (pc \in PostSweepPcs \/ (Active /\ ~SweepFwd(ka) /\ ~SweepBwd(ka))) =>
       (hist.fwd = NFrames(inp) /\ hist.bwd = NFrames(inp))

C4_Witness ==
  /\ inp.engine = "segmental" /\ NFrames(inp) >= 2
  /\ running /\ SweepBwd(ka) /\ ka.time = 0
  /\ \E i \in DOMAIN wk : \E j \in DOMAIN wk :
       /\ wk[i].pc = "done" /\ wk[j].pc = "cas"
       /\ isfinite(wk[j].b)

\* C5: whenever the host is between two statements of a call of the base
\* engine, the state buffer, the edge buffer, output and sums are those of the
\* run in which the threads of every kernel run one after the other, whatever
\* the order in which the threads of next_frame and compute_result took their
\* steps
C5_OrderIndependent ==
  (inp.engine = "base" /\ ~running) => Cur = RunTo(inp, InitState(inp), hist.steps)

C5_Witness ==
  /\ inp.engine = "base" /\ ~running /\ pc = "done"
  /\ \E i \in DOMAIN wk : \E j \in DOMAIN wk :
       /\ i # j /\ wk[i].addr = wk[j].addr
       /\ isfinite(wk[i].b) /\ isfinite(wk[j].b)
       /\ out[wk[i].addr] = prob_add(wk[i].b, wk[j].b)
  /\ \E idx \in DOMAIN state_buffer : isfinite(state_buffer[idx])

----------------------------------------------------------------------------
(* Concurrent callers of atomic_prob_add on one cell *)

AtomVals == {INF, Zero, Half}

\* no call of an engine is in progress
InitNoCall ==
  /\ inp = [engine |-> "none"]
  /\ pc = "done" /\ t = 0 /\ d_prev = 0 /\ d_next = 0
  /\ state_buffer = <<>> /\ edge_buffer = <<>> /\ out = <<>>
  /\ sum_output = <<>> /\ post_weights = <<>>
  /\ running = FALSE /\ ka = NoKernel /\ wk = <<>>
  /\ hist = Hist0

InitAtomic ==
  /\ InitNoCall
  /\ acell \in AtomVals
  /\ ainit = acell
  /\ \E n \in 1..MaxWorkers :
       aw \in [1..n -> [pc : {"load"}, b : AtomVals, old : {INF}, tries : {0}]]

ALoad(w) ==
  /\ aw[w].pc = "load"
  /\ aw' = [aw EXCEPT ![w].pc = "cas", ![w].old = atomic_prob_add_load(acell)]
  /\ UNCHANGED <<acell, ainit, inp, pvars, kvars, hist>>

ACas(w) ==
  /\ aw[w].pc = "cas"
  /\ LET r == atomic_prob_add_cas(acell, aw[w].old, aw[w].b)
     IN  /\ acell' = r.cell
         /\ aw' = [aw EXCEPT ![w].pc = IF r.exit THEN "done" ELSE "cas",
                             ![w].old = r.old,
                             ![w].tries = @ + 1]
  /\ UNCHANGED <<ainit, inp, pvars, kvars, hist>>

NextAtomic ==
  \/ \E w \in DOMAIN aw : ALoad(w)
  \/ \E w \in DOMAIN aw : ACas(w)

SpecAtomic == InitAtomic /\ [][NextAtomic]_vars

\* combine applied to v and the values b of the callers 1..n that are in D
RECURSIVE CombineDone(_, _)
CombineDone(v, n) ==
  IF n = 0 THEN v
  ELSE LET r == CombineDone(v, n - 1)
       IN  IF aw[n].pc = "done" THEN prob_add(r, aw[n].b) ELSE r

\* C3: under every interleaving of the callers' load and compare-and-swap
\* steps the cell holds combine of its initial value and the values of exactly
\* the callers that have returned; when all have returned, of all values.
C3_AtomicNoLostUpdate == acell = CombineDone(ainit, Len(aw))

C3_Witness ==
  /\ Len(aw) >= 2
  /\ \A w \in DOMAIN aw : aw[w].pc = "done"
  /\ \E w \in DOMAIN aw : aw[w].tries >= 2
  /\ \E w \in DOMAIN aw : isfinite(aw[w].b)
  /\ acell # ainit

----------------------------------------------------------------------------
(* prob_add on scores >= 0: one or two callers of atomic_prob_add on a cell *)

\* +inf and the scores -log(n/d) >= 0
ScoreVals ==
  {INF} \cup {Norm(nd[1], nd[2]) : nd \in {x \in (1..MaxDen) \X (1..MaxDen) : x[1] <= x[2]}}

NonNegFinite(x) == isfinite(x) /\ x[1] <= x[2]

InitCombine ==
  /\ InitNoCall
  /\ acell \in ScoreVals
  /\ ainit = acell
  /\ \E n \in 1..2 :
       aw \in [1..n -> [pc : {"load"}, b : ScoreVals, old : {INF}, tries : {0}]]

SpecCombine == InitCombine /\ [][NextAtomic]_vars

\* C11: for finite a, b >= 0, combine(a, +inf) = a and combine(a, b) =
\* combine(b, a): a caller that adds b to a cell holding a leaves
\* prob_add(b, a) in it, and leaves a itself when b is +inf.
C11_IdentityAndCommutative ==
  [][\A w \in DOMAIN aw :
       (aw[w].pc = "cas" /\ aw'[w].pc = "done" /\ NonNegFinite(acell)) =>
         /\ NonNegFinite(aw[w].b) => acell' = prob_add(aw[w].b, acell)
         /\ aw[w].b = INF => acell' = acell]_vars

C11_Witness ==
  /\ Len(aw) = 2
  /\ \A w \in DOMAIN aw : aw[w].pc = "done"
  /\ NonNegFinite(ainit)
  /\ aw[1].b = INF /\ NonNegFinite(aw[2].b) /\ aw[2].b # ainit
  /\ acell # ainit /\ acell # aw[2].b

----------------------------------------------------------------------------
(* Configuration errors *)

\* a sequence of the batch has no frame: its column of index is 0 throughout
ZeroLengthSequence(in) ==
  /\ in.engine = "base"
  /\ \E q \in 0..(in.n_seqs - 1) :
       \A tt \in 0..(in.n_frames - 1) : in.index[tt * in.index_stride + q] = 0

\* C12: a call whose input has a configuration error, here a sequence of
\* length zero, is aborted before the first step of the forward sweep: no
\* kernel of a sweep runs for it.
C12_ConfigErrorAborts ==
  ZeroLengthSequence(inp) => (hist.fwd = 0 /\ hist.bwd = 0 /\ pc # "done")

----------------------------------------------------------------------------
(* The ring buffer of the segmental engine, compared with the scores of a   *)
(* state buffer that has a slot for every time index                        *)

SegBatch(in, tt, e) == in.batch_idxs[tt * in.n_seqs + in.sequence_idxs[e]]

\* the probability of edge e for a segment of i + 1 frames that starts at tt
SegEdgeProb(in, tt, e, i) ==
  QMul(in.weights[e], seg_edge_score(in, e, SegBatch(in, tt, e), i))

\* the pairs of an edge and a segment length that next_frame_fwd / _bwd handles
SegTerms(in) == (0..(in.n_edges - 1)) \X (0..(in.n_seg_frames - 1))

\* the forward score of state st at time tt: the segments that end at tt
RECURSIVE SegAlpha(_, _, _)
SegAlpha(in, st, tt) ==
  IF tt = 0 THEN (IF \E q \in 0..(in.n_seqs - 1) : in.start_states[q] = st THEN QOne ELSE QZero)
  ELSE LET D == {x \in SegTerms(in) :
                   /\ in.to[x[1]] = st /\ x[2] <= tt - 1
                   /\ SegBatch(in, tt - 1 - x[2], x[1]) # -1}
       IN  QSum([x \in D |-> QMul(SegAlpha(in, in.from[x[1]], tt - 1 - x[2]),
                                  SegEdgeProb(in, tt - 1 - x[2], x[1], x[2]))], D)

\* the backward score of state st at time tt as the steps for the times before
\* tt read it: the end state as set by the step for tt - 1, else the segments
\* that start at tt
RECURSIVE SegBeta(_, _, _)
SegBeta(in, st, tt) ==
  IF tt >= 1 /\ \E idx \in 0..(in.n_seqs - 1) :
                  seg_init_bwd_cond(in, idx, tt - 1) /\ in.end_states[idx] = st
  THEN QOne
  ELSE IF tt >= in.n_tot_frames THEN QZero
  ELSE LET D == {x \in SegTerms(in) :
                   /\ in.from[x[1]] = st /\ x[2] < max_seg_frames(in, tt)
                   /\ SegBatch(in, tt, x[1]) # -1}
       IN  QSum([x \in D |-> QMul(SegBeta(in, in.to[x[1]], tt + x[2] + 1),
                                  SegEdgeProb(in, tt, x[1], x[2]))], D)

Slot(in, tt) == tt % (in.n_seg_frames + 1)

\* C13: in the ring buffer of K + 1 slots the slot a forward step reads differs
\* from the slots it writes and holds the forward scores of its own time
\* index; the slots a backward step reads differ from the slot it writes and
\* hold the backward scores of their own time indices.
C13_RingBufferSlots ==
  inp.engine = "segmental" =>
    /\ pc = "s_fwd_next_frame" =>
         /\ \A i \in 1..max_seg_frames(inp, t) : Slot(inp, t + i) # Slot(inp, t)
         /\ \A st \in 0..(inp.n_states - 1) :
              state_buffer[Slot(inp, t) * inp.n_states + st] = SegAlpha(inp, st, t)
    /\ pc = "s_bwd_next_frame" =>
         \A i \in 1..max_seg_frames(inp, t - 1) :
           /\ Slot(inp, t - 1 + i) # Slot(inp, t - 1)
           /\ \A st \in 0..(inp.n_states - 1) :
                state_buffer[Slot(inp, t - 1 + i) * inp.n_states + st]
                  = SegBeta(inp, st, t - 1 + i)

----------------------------------------------------------------------------
(* Negative batch indices *)

\* the time index of the sweep kernel of statement pc
SegSweepTime == IF pc = "s_fwd_next_frame" THEN t ELSE t - 1

\* the cells that the kernel of statement pc writes for edge e and a segment of
\* i + 1 frames: of the edge buffer, and of the state buffer
SegEdgeCell(e, i) == (SegSweepTime * inp.n_seg_frames + i) * inp.n_edges + e
SegStateCell(e, i) ==
  IF pc = "s_fwd_next_frame"
  THEN Slot(inp, SegSweepTime + 1 + i) * inp.n_states + inp.to[e]
  ELSE Slot(inp, SegSweepTime) * inp.n_states + inp.from[e]

\* C14: for a (time, sequence) pair whose batch_idxs entry is negative,
\* next_frame_fwd and next_frame_bwd leave the edge-buffer and state-buffer
\* cells of the edges of that sequence as they are, and init_bwd_state_buffer
\* leaves the end state of the sequence as it is.
C14_NegativeIndexSkipped ==
  [][inp.engine = "segmental" =>
       /\ pc \in {"s_fwd_next_frame", "s_bwd_next_frame"} =>
            \A e \in 0..(inp.n_edges - 1) :
              SegBatch(inp, SegSweepTime, e) < 0 =>
                \A i \in 0..(max_seg_frames(inp, SegSweepTime) - 1) :
                  /\ edge_buffer'[SegEdgeCell(e, i)] = edge_buffer[SegEdgeCell(e, i)]
                  /\ state_buffer'[SegStateCell(e, i)] = state_buffer[SegStateCell(e, i)]
       /\ pc = "s_bwd_init" =>
            \A idx \in 0..(inp.n_seqs - 1) :
              inp.batch_idxs[(t - 1) * inp.n_seqs + idx] < 0 =>
                state_buffer'[d_prev + inp.end_states[idx]]
                  = state_buffer[d_prev + inp.end_states[idx]]]_vars

----------------------------------------------------------------------------
(* init_bwd_state_buffer of MultiEndFastBaumWelchOp, thread by thread: the   *)
(* launch of the first step of the backward sweep of a call with one frame. *)
(* Entry idx of end_states is (seq_idx, state_idx), its weight is           *)
(* end_state_weights[idx].                                                  *)

multi_init_bwd_cond(in, idx, tt, max_t) ==
  LET seq_idx == in.end_states[idx][1]
  IN  /\ in.index[tt * in.index_stride + seq_idx] = 1
      /\ (tt = max_t \/ in.index[(tt + 1) * in.index_stride + seq_idx] = 0)

\* thread idx up to its store
multi_init_bwd_start(in, a, idx, w) ==
  IF multi_init_bwd_cond(in, idx, a.time, in.n_frames - 1)
  THEN [w EXCEPT !.pc = "store", !.addr = a.prev + in.end_states[idx][2],
                 !.b = in.end_state_weights[idx]]
  ELSE Finished(w)

\* states[state_idx] = weight
multi_init_bwd_store(states, w) == [states EXCEPT ![w.addr] = w.b]

\* sequence q owns the states 2q (start) and 2q + 1 (end); an entry names the
\* end state of sequence 0 or 1
EndEntries == {<<q, 2 * q + 1>> : q \in 0..1}

MultiEndInput(L, En, Wt) ==
  [engine |-> "multi_end", n_frames |-> 1, n_seqs |-> 2, n_states |-> 4,
   n_end_states |-> Len(En),
   start_states |-> [q \in 0..1 |-> 2 * q],
   end_states |-> [i \in 0..(Len(En) - 1) |-> En[i + 1]],
   end_state_weights |-> [i \in 0..(Len(Wt) - 1) |-> Wt[i + 1]],
   index_stride |-> 2,
   index |-> [q \in 0..1 |-> IF L[q + 1] > 0 THEN 1 ELSE 0]]

MultiEndInputs ==
  UNION {
    {MultiEndInput(L, En, Wt) :
       L \in {<<1, 1>>, <<1, 0>>}, En \in [1..n -> EndEntries], Wt \in [1..n -> {Zero, Half}]} :
    n \in 1..MaxEndStates}

\* after the forward sweep of one frame and fill_array on d_state_buffer_prev:
\* row 1 is d_state_buffer_prev and holds +inf, row 0 holds the start states
InitEndInit ==
  /\ InitIdle
  /\ inp \in MultiEndInputs
  /\ pc = "bwd_init" /\ t = 1 /\ d_prev = inp.n_states /\ d_next = 0
  /\ state_buffer = set_start_states(Arr(2 * inp.n_states, INF), 0, inp)
  /\ edge_buffer = <<>> /\ out = <<>> /\ sum_output = <<>> /\ post_weights = <<>>
  /\ running = TRUE
  /\ ka = [KA("init_bwd_state_buffer") EXCEPT !.prev = inp.n_states, !.time = 0,
                                               !.n = inp.n_end_states]
  /\ wk = Arr(inp.n_end_states, Thread0)
  /\ hist = Hist0

EndInitStart(idx) ==
  /\ wk[idx].pc = "start"
  /\ wk' = [wk EXCEPT ![idx] = multi_init_bwd_start(inp, ka, idx, wk[idx])]
  /\ UNCHANGED <<avars, inp, pvars, running, ka, hist>>

EndInitStore(idx) ==
  /\ wk[idx].pc = "store"
  /\ state_buffer' = multi_init_bwd_store(state_buffer, wk[idx])
  /\ wk' = [wk EXCEPT ![idx] = Finished(wk[idx])]
  /\ UNCHANGED <<avars, inp, pc, t, d_prev, d_next, edge_buffer, out, sum_output,
                 post_weights, running, ka, hist>>

NextEndInit ==
  \/ \E idx \in DOMAIN wk : EndInitStart(idx)
  \/ \E idx \in DOMAIN wk : EndInitStore(idx)

SpecEndInit == InitEndInit /\ [][NextEndInit]_vars

\* the entries of end_states that name state st and pass the condition
LiveEntries(in, st) ==
  {idx \in 0..(in.n_end_states - 1) :
     in.end_states[idx][2] = st /\ multi_init_bwd_cond(in, idx, 0, in.n_frames - 1)}

\* combine of the weights of the entries in D
RECURSIVE CombineWeights(_, _)
CombineWeights(in, D) ==
  IF D = {} THEN INF
  ELSE LET x == CHOOSE i \in D : TRUE
       IN  prob_add(in.end_state_weights[x], CombineWeights(in, D \ {x}))

\* C15: a state-buffer cell that several workers of one launch write is
\* written through atomic_prob_add only, the end-state initialisation with
\* several entries naming one state included: no two workers are at a plain
\* store to the same cell, and when the launch has finished the end state
\* holds combine of the weights of all its entries.
C15_SharedCellsAtomic ==
  /\ \A i \in DOMAIN wk : \A j \in DOMAIN wk :
       (i # j /\ wk[i].pc = "store" /\ wk[j].pc = "store") => wk[i].addr # wk[j].addr
  /\ (inp.engine = "multi_end" /\ \A i \in DOMAIN wk : wk[i].pc = "done") =>
       \A st \in 0..(inp.n_states - 1) :
         LiveEntries(inp, st) # {} =>
           state_buffer[d_prev + st] = CombineWeights(inp, LiveEntries(inp, st))

----------------------------------------------------------------------------
(* Writers of the edge buffer and of the output of the base engine *)

\* the thread that takes the step, if the step is one of a thread
Stepping(idx) == running /\ wk'[idx] # wk[idx]

\* C16 as stated: an edge-buffer cell is written at most once over a call: a
\* step that modifies a cell finds it as it was allocated, never written.
C16_EdgeCellWrittenOnce ==
  [][inp.engine = "base" =>
       \A c \in DOMAIN edge_buffer :
         edge_buffer'[c] # edge_buffer[c] => edge_buffer[c] = inp.garbage]_vars

\* C16: over one call of the base engine the edge-buffer cell (t, e) is
\* modified only by fill_array, by worker e of the forward launch for frame t,
\* by worker e of the backward launch for frame t (each before its call of
\* atomic_prob_add) and by normalize, so no cell is modified by two workers of
\* one launch; an output cell is modified only by fill_array, by the atomic
\* accumulation of a worker of compute_result and, in the TensorFlow build, by
\* remove_inf.
C16_EdgeCellWriters ==
  [][inp.engine = "base" =>
       /\ \A c \in DOMAIN edge_buffer :
            edge_buffer'[c] # edge_buffer[c] =>
              \/ ~running /\ pc \in {"fill_edge_buffer", "normalize"}
              \/ /\ pc \in {"fwd_next_frame", "bwd_next_frame"}
                 /\ ka.name = "next_frame" /\ ka.time = c \div inp.n_edges
                 /\ Stepping(c % inp.n_edges) /\ wk[c % inp.n_edges].pc = "start"
       /\ \A c \in DOMAIN out :
            out'[c] # out[c] =>
              \/ ~running /\ pc \in {"fill_out", "remove_inf"}
              \/ /\ pc = "compute_result" /\ ka.name = "compute_result"
                 /\ \E idx \in DOMAIN wk :
                      /\ Stepping(idx) /\ wk[idx].pc = "cas" /\ wk[idx].addr = c
                      /\ out'[c] = prob_add(out[c], wk[idx].b)]_vars

C16_Witness ==
  /\ inp.engine = "base" /\ inp.tensorflow /\ pc = "done" /\ inp.n_frames >= 2
  /\ \E c \in DOMAIN edge_buffer : isfinite(edge_buffer[c]) /\ edge_buffer[c] # Zero
  /\ \E i \in DOMAIN wk : \E j \in DOMAIN wk :
       /\ i # j /\ wk[i].addr = wk[j].addr
       /\ isfinite(wk[i].b) /\ isfinite(wk[j].b)
       /\ isfinite(out[wk[i].addr])

----------------------------------------------------------------------------
(* C17: no state is carried from one call of the base engine to the next   *)

\* C17: a finished call of the base engine has the output and the sums of the
\* call with the same am_scores, edges, weights, start and end states and
\* index, whatever the state buffer, the edge buffer and the output tensors
\* held at its entry.
C17_NoCarryOver ==
  (inp.engine = "base" /\ pc = "done") =>
    \A c \in PriorContents \cup {NAN} :
      LET r == Call(WithPrior(inp, c))
      IN  /\ r.pc = "done"
          /\ out = r.out
          /\ sum_output = r.sum_output

\* a finished call of two frames that found zeros in its buffers and whose
\* output has a finite cell and an infinite one
C17_Witness ==
  /\ inp.engine = "base" /\ pc = "done"
  /\ inp.garbage = Zero
  /\ inp.n_frames = 2 /\ inp.n_seqs = 2
  /\ \E i \in DOMAIN out : out[i] = INF
  /\ \E i \in DOMAIN out : out[i][1] > 0 /\ out[i][2] > 0

----------------------------------------------------------------------------
(* C18: the call runs to completion                                         *)

\* The host thread runs its next statement, the stream starts a launched
\* kernel and ends it when no thread is left, and the device schedules every
\* thread that has a step to take.
HostNext ==
  \/ \E l \in BasePcs \cup SegPcs : Host(l)
  \/ \E l \in KernelPcs : Launch(l)
  \/ \E l \in KernelPcs : Complete(l)

ThreadNext(idx) == idx \in DOMAIN wk /\ Thread(idx)

\* the calls of the base engine among the inputs of the thread-level model
FairInputs == {in \in ThreadInputs : in.engine = "base"}

InitFair == InitIdle /\ \E in \in FairInputs : InitCall(in)

SpecFair ==
  /\ InitFair
  /\ [][Next]_vars
  /\ WF_vars(HostNext)
  /\ \A idx \in 0..(MaxKernelThreads - 1) : WF_vars(ThreadNext(idx))

\* thread idx is in the retry loop of atomic_prob_add and its next
\* compare-and-swap fails: the cell has changed since the thread read it
CasFails(idx) ==
  /\ running
  /\ wk[idx].pc = "cas"
  /\ AtomicCell(ka, Cur, wk[idx].addr) # wk[idx].old

\* C18: under fair scheduling of the host and of the threads the call ends:
\* it reaches the state after the buffers are freed, with no kernel running,
\* one forward and one backward step done per frame.
C18_RunsToCompletion ==
  <>(/\ pc = "done"
     /\ ~running
     /\ hist.fwd = NFrames(inp)
     /\ hist.bwd = NFrames(inp))

\* a thread of a backward step of the base engine whose compare-and-swap is
\* about to fail, after the forward sweep of two frames
C18_Witness ==
  /\ inp.engine = "base"
  /\ pc = "bwd_next_frame"
  /\ hist.fwd = 2 /\ NFrames(inp) = 2
  /\ \E idx \in DOMAIN wk : CasFails(idx)

----------------------------------------------------------------------------
(* C19: the end state is set at the last live frame of its sequence         *)

\* frame tt is the last frame of sequence q (from 0) that the mask marks as
\* valid; the mask of q is index = 1 on the frames 0..L[q]-1 and 0 after them
LastLiveFrame(in, q, tt) == tt = in.L[q + 1] - 1

----------------------------------------------------------------------------
(* C20: the values of the state buffer during the sweeps                    *)

\* the statements of the two sweeps of the base engine at which both rows of
\* the state buffer have been filled by this call
SweepPcs == {"fwd_next_frame", "fwd_swap", "bwd_fill_prev", "bwd_init", "bwd_fill",
             "bwd_next_frame", "bwd_swap"}

\* a score >= 0: the probability n/d is positive and at most 1
NonNegScore(x) == isfinite(x) /\ x[1] <= x[2]

\* all am_scores, padding included, and all edge weights are +inf or >= 0
ScoresNonNeg(in) ==
  /\ \A i \in DOMAIN in.am_scores : in.am_scores[i] = INF \/ NonNegScore(in.am_scores[i])
  /\ \A e \in DOMAIN in.weights : in.weights[e] = INF \/ NonNegScore(in.weights[e])

\* C20 as stated: during the sweeps each state-buffer entry is +inf or a
\* score >= 0.
C20_ScoresNonNegative ==
  (pc \in SweepPcs /\ ScoresNonNeg(inp)) =>
    \A c \in DOMAIN state_buffer : state_buffer[c] = INF \/ NonNegScore(state_buffer[c])

\* C20, amended: for am_scores and weights that are +inf or >= 0, each
\* state-buffer entry during the sweeps is +inf or a finite score, never NaN
\* and never -inf; the score is negative where the paths into the state have
\* a total weight above 1.
C20_ScoresInfOrFinite ==
  (pc \in SweepPcs /\ ScoresNonNeg(inp)) =>
    \A c \in DOMAIN state_buffer : state_buffer[c] = INF \/ isfinite(state_buffer[c])

\* a sweep state with a negative entry and an infinite one, all inputs >= 0,
\* one of them +inf
C20_Witness ==
  /\ pc \in SweepPcs /\ ScoresNonNeg(inp)
  /\ \E i \in DOMAIN inp.am_scores : inp.am_scores[i] = INF
  /\ \E c \in DOMAIN state_buffer : isfinite(state_buffer[c]) /\ state_buffer[c][1] > state_buffer[c][2]
  /\ \E c \in DOMAIN state_buffer : state_buffer[c] = INF

----------------------------------------------------------------------------
(* C21: sequences and cells without a complete path                         *)

EdgesOf(in, q) == {e \in EdgeIds(in) : in.sequence_idxs[e] = q}

\* the first edge of sequence q; the edges of a sequence are adjacent in edges
FirstEdge(in, q) == Cardinality({e \in EdgeIds(in) : in.sequence_idxs[e] < q})

\* the call for sequence q of the batch alone: its edges, its row of the
\* am_scores and of index, its start and end state
Alone(in, q) ==
  LET n == Cardinality(EdgesOf(in, q))
      f == FirstEdge(in, q)
  IN  [in EXCEPT !.n_seqs = 1, !.n_edges = n,
                 !.from          = [e \in 0..(n - 1) |-> in.from[f + e]],
                 !.to            = [e \in 0..(n - 1) |-> in.to[f + e]],
                 !.emission_idxs = [e \in 0..(n - 1) |-> in.emission_idxs[f + e]],
                 !.sequence_idxs = [e \in 0..(n - 1) |-> 0],
                 !.weights       = [e \in 0..(n - 1) |-> in.weights[f + e]],
                 !.start_states  = [s \in {0} |-> in.start_states[q]],
                 !.end_states    = [s \in {0} |-> in.end_states[q]],
                 !.index_stride  = 1,
                 !.index = [tt \in 0..(in.n_frames - 1) |-> in.index[tt * in.index_stride + q]],
                 !.am_scores =
                   [i \in 0..(in.n_frames * in.n_emissions - 1) |->
                      in.am_scores[Cell(in, i \div in.n_emissions, q, i % in.n_emissions)]],
                 !.L = <<in.L[q + 1]>>]

\* no complete path of sequence q passes through frame tt: the frame is
\* masked out, or every edge of q is unreachable forward, has an infinite
\* score, or cannot reach the end state backward
NoPath(in, tt, q) ==
  \/ ~Valid(in, tt, q)
  \/ \A e \in EdgesOf(in, q) :
       \/ Alpha(in, in.from[e], tt) = QZero
       \/ EdgeProb(in, tt, e) = QZero
       \/ Beta(in, in.to[e], tt + 1) = QZero

\* what an output cell without posterior mass holds at the end of the call
NoMass(in) == IF in.tensorflow THEN BIG ELSE INF

\* output and sums of sequence q are those of the call for q alone
SameAsAlone(q) ==
  LET r == Call(Alone(inp, q))
  IN  \A tt \in 0..(inp.n_frames - 1) :
        /\ sum_output[tt * inp.n_seqs + q] = r.sum_output[tt]
        /\ \A m \in 0..(inp.n_emissions - 1) :
             out[Cell(inp, tt, q, m)] = r.out[tt * inp.n_emissions + m]

\* C21 as stated: the call completes, every output cell of a (frame,
\* sequence) without a complete path holds +inf and its sums entry is 0.
C21_NoPathIsInf ==
  BaseDone =>
    \A tt \in 0..(inp.n_frames - 1) : \A q \in 0..(inp.n_seqs - 1) :
      NoPath(inp, tt, q) =>
        /\ sum_output[tt * inp.n_seqs + q] = Zero
        /\ \A m \in 0..(inp.n_emissions - 1) : out[Cell(inp, tt, q, m)] = INF

\* C21: the call never aborts on a masked-out sequence or a cell without a
\* complete path; at its end every output cell of such a (frame, sequence)
\* holds +inf (1e32 in the TensorFlow build), its sums entry is 0, and output
\* and sums of every sequence are those of the call for that sequence alone.
C21_NoPathNoMass ==
  /\ (inp.engine = "base" /\ inp.n_frames > 0) => pc # "aborted"
  /\ BaseDone =>
       \A q \in 0..(inp.n_seqs - 1) :
         /\ \A tt \in 0..(inp.n_frames - 1) :
              NoPath(inp, tt, q) =>
                /\ sum_output[tt * inp.n_seqs + q] = Zero
                /\ \A m \in 0..(inp.n_emissions - 1) :
                     out[Cell(inp, tt, q, m)] = NoMass(inp)
         /\ SameAsAlone(q)

\* a finished call of two sequences and two frames: the second sequence is
\* fully masked out and has no posterior mass, the first has posterior mass
\* in both frames
C21_Witness ==
  /\ BaseDone /\ inp.n_seqs = 2 /\ inp.n_frames = 2 /\ ~inp.tensorflow
  /\ inp.L[2] = 0 /\ NoPath(inp, 0, 1) /\ NoPath(inp, 1, 1)
  /\ out[Cell(inp, 0, 1, 0)] = INF /\ out[Cell(inp, 1, 1, 1)] = INF
  /\ sum_output[1] = Zero /\ sum_output[3] = Zero
  /\ \A tt \in 0..1 : \E m \in 0..(inp.n_emissions - 1) : isfinite(out[Cell(inp, tt, 0, m)])

----------------------------------------------------------------------------
(* The am score scale of the segmental engine *)

MaxEpoch == 4

\* the lists of am score scales and the list s as a flat array
ScaleLists == {<<1>>, <<1, 2>>, <<2, 1, 3>>}
ScaleArr(s) == [i \in 0..(Len(s) - 1) |-> s[i + 1]]

\* the input in with the am score scales s and the epoch e
WithScales(in, s, e) ==
  [in EXCEPT !.am_score_scales = ScaleArr(s), !.n_am_score_scales = Len(s), !.epoch = e]

\* calls of the segmental engine with segments of one frame, one to three am
\* score scales and the epochs 0..maxEpoch
ScaleInputs(maxT, maxEpoch) ==
  UNION {
    {WithScales(SegOfBase(GraphInput(T, L, FirstGraph(g) \o (IF Len(L) = 2 THEN SecondGraph ELSE <<>>),
                                     AmPat0, -1, NoPad, FALSE), 0, FALSE), s, e) :
       L \in {<<T>>, <<T, T - 1>>}, g \in SegGraphs, s \in ScaleLists, e \in 0..maxEpoch} :
    T \in 1..maxT}

InitScale == InitIdle /\ \E in \in ScaleInputs(MaxT, MaxEpoch) : InitCall(in)

SpecScale == InitScale /\ [][NextSeq]_vars

\* entry e of the list for an epoch e below its length n, else its last entry
SelectedScale(in) ==
  in.am_score_scales[IF in.epoch < in.n_am_score_scales THEN in.epoch
                     ELSE in.n_am_score_scales - 1]

\* the call with the selected scale as the only entry of the list
OneScale(in) == WithScales(in, <<SelectedScale(in)>>, 0)

\* the call with entry i of the list as the only entry
EntryOnly(in, i) == WithScales(in, <<in.am_score_scales[i]>>, 0)

\* C22: after every statement of a segmental call with n am score scales and
\* epoch e, the state buffer, the edge buffer, output and sums are those of the
\* call whose only scale is entry min(e, n - 1) of the list (entry e for
\* e < n, the last entry for e >= n - 1): every step of the forward and of
\* the backward sweep has used this one entry
C22_ScaleSelection ==
  inp.engine = "segmental" =>
    Cur = RunTo(OneScale(inp), InitState(OneScale(inp)), hist.steps)

C22_Witness ==
  /\ SegDone
  /\ inp.n_am_score_scales = 3 /\ inp.epoch > 3
  /\ inp.n_tot_frames = 2 /\ inp.n_seqs = 2
  /\ hist.fwd = 2 /\ hist.bwd = 2
  /\ out = Call(EntryOnly(inp, 2)).out
  /\ sum_output = Call(EntryOnly(inp, 2)).sum_output
  /\ \A i \in {0, 1} : sum_output # Call(EntryOnly(inp, i)).sum_output
  /\ \E c \in DOMAIN sum_output : isfinite(sum_output[c])

----------------------------------------------------------------------------
(* Segmentwise normalization *)

MaxNormSegFrames == 3

\* calls with segmentwise normalization and segments of up to 2..maxK frames
NormInputs(maxT, maxK) ==
  UNION {
    {SegInput(GraphInput(T, L, FirstGraph(g) \o (IF Len(L) = 2 THEN SecondGraph ELSE <<>>),
                         AmPat0, -1, NoPad, FALSE), K, TRUE) :
       L \in {<<T>>, <<T, T - 1>>}, g \in SegGraphs, K \in 2..maxK} :
    T \in 1..maxT}

InitNorm == InitIdle /\ \E in \in NormInputs(MaxT, MaxNormSegFrames) : InitCall(in)

SpecNorm == InitNorm /\ [][NextSeq]_vars

\* the combined score of the edges of sequence q for segments of l + 1 frames
\* that start at frame time: +inf if none of them has a finite score
LengthSum(in, eb, time, q, l) ==
  framewise_sum_buffer(in, eb, time * in.n_seg_frames + l, in.n_edges)[q]

\* the log-sum-exp of the combined scores of the valid lengths below n
RECURSIVE MergedSum(_, _, _, _, _)
MergedSum(in, eb, time, q, n) ==
  IF n = 0 THEN INF
  ELSE LET b == in.batch_idxs[time * in.n_seqs + q]
           m == MergedSum(in, eb, time, q, n - 1)
       IN  IF in.index[(n - 1) * in.n_batches + b] # 0
           THEN prob_add(m, LengthSum(in, eb, time, q, n - 1)) ELSE m

\* C23 as stated: with segmentwise normalization, after merge_framewise_sum the
\* normalization entry of every valid (length, batch slot) is the log-sum-exp
\* over the valid lengths of the slot of the combined edge scores of these
\* lengths, a length without a finite edge score adding no mass; stated for
\* the slots with a finite edge score in at least one valid length
C23_MergedNormalization ==
  (SegDone /\ inp.segmentwise_normalization) =>
    \A time \in 0..(inp.n_tot_frames - 1) : \A q \in 0..(inp.n_seqs - 1) :
      LET b == inp.batch_idxs[time * inp.n_seqs + q]
      IN  (b >= 0 /\ isfinite(MergedSum(inp, edge_buffer, time, q, inp.n_seg_frames))) =>
            \A l \in 0..(inp.n_seg_frames - 1) :
              inp.index[l * inp.n_batches + b] # 0 =>
                sum_output[l * inp.n_batches + b]
                  = MergedSum(inp, edge_buffer, time, q, inp.n_seg_frames)

----------------------------------------------------------------------------
(* Chunking: chunk(), Chunking.naive_chunk_start_frames and copy_kernel.    *)
(* A call holds chunk_start_frames in edge_buffer, output in out, oindex in *)
(* sum_output and the arguments of copy_kernel in ka.                       *)

MaxTime  == 5    \* n_time
MaxChunk == 3    \* chunk_size and chunk_step

Max(a, b) == IF a >= b THEN a ELSE b

\* a chunk count without the rounding term chunk_step - 1
n_chunks_floor(n_time, chunk_size, chunk_step) ==
  Max(n_time - chunk_size, 0) \div chunk_step + 1

\* chunk(): T.maximum(n_time - chunk_size + chunk_step - 1, 0) // chunk_step + 1
n_chunks(n_time, chunk_size, chunk_step) ==
  Max(n_time - chunk_size + chunk_step - 1, 0) \div chunk_step + 1

\* the loop of naive_chunk_start_frames from the iteration with the value tt of t
RECURSIVE naive_loop(_, _, _, _, _)
naive_loop(tt, frames, n_time, chunk_size, chunk_step) ==
  LET chunk_start_frames == Append(frames, tt)
  IN  IF tt + chunk_size >= n_time THEN chunk_start_frames
      ELSE naive_loop(tt + chunk_step, chunk_start_frames, n_time, chunk_size, chunk_step)

naive_chunk_start_frames(n_time, chunk_size, chunk_step) ==
  naive_loop(0, <<>>, n_time, chunk_size, chunk_step)

\* x of shape (n_time, n_batch, 1) with a different value in every cell; index
\* of shape (n_time, n_batch): the sequence of batch entry b has n_time - b * short
\* frames
ChunkInput(n_time, n_batch, short, chunk_size, chunk_step) ==
  [engine |-> "chunking", n_time |-> n_time, n_batch |-> n_batch, n_dim |-> 1,
   chunk_size |-> chunk_size, chunk_step |-> chunk_step,
   x |-> [i \in 0..(n_time * n_batch - 1) |-> i + 1],
   index |-> [i \in 0..(n_time * n_batch - 1) |->
                IF (i \div n_batch) < n_time - (i % n_batch) * short THEN 1 ELSE 0]]

ChunkInputs(maxTime, maxChunk) ==
  {ChunkInput(n_time, n_batch, short, chunk_size, chunk_step) :
     n_time \in 1..maxTime, n_batch \in 1..2, short \in 0..1,
     chunk_size \in 1..maxChunk, chunk_step \in 1..maxChunk}

InitChunk ==
  /\ InitIdle
  /\ inp \in ChunkInputs(MaxTime, MaxChunk)
  /\ pc \in {"naive_chunk_start_frames", "chunk"}
  /\ t = 0 /\ d_prev = 0 /\ d_next = 0
  /\ state_buffer = <<>> /\ edge_buffer = <<>> /\ out = <<>> /\ sum_output = <<>>
  /\ post_weights = <<>>
  /\ running = FALSE /\ ka = NoKernel /\ wk = <<>>
  /\ hist = Hist0

\* a call of Chunking.naive_chunk_start_frames(n_time, chunk_size, chunk_step)
NaiveChunkStartFrames ==
  /\ pc = "naive_chunk_start_frames"
  /\ edge_buffer' = naive_chunk_start_frames(inp.n_time, inp.chunk_size, inp.chunk_step)
  /\ t' = edge_buffer'[Len(edge_buffer')]
  /\ pc' = "returned"
  /\ UNCHANGED <<avars, inp, d_prev, d_next, state_buffer, out, sum_output, post_weights,
                 kvars, hist>>

\* chunk() up to the launch of copy_kernel: the zero buffers of n_batch * n_chunks
\* columns and the arguments of the kernel
Chunk ==
  /\ pc = "chunk"
  /\ LET n == n_chunks(inp.n_time, inp.chunk_size, inp.chunk_step)
     IN  /\ out' = Arr(inp.chunk_size * inp.n_batch * n * inp.n_dim, 0)
         /\ sum_output' = Arr(inp.chunk_size * inp.n_batch * n, 0)
         /\ ka' = [name |-> "copy_kernel",
                   chunk_params |-> <<inp.chunk_size, inp.chunk_step>>,
                   in_dim0 |-> inp.n_time, in_dim1 |-> inp.n_batch, in_dim2 |-> inp.n_dim,
                   out_dim0 |-> inp.chunk_size, out_dim1 |-> inp.n_batch * n]
  /\ pc' = "copy_kernel"
  /\ UNCHANGED <<avars, inp, t, d_prev, d_next, state_buffer, edge_buffer, post_weights,
                 running, wk, hist>>

\* the assertions of copy_kernel
copy_kernel_asserts(a) ==
  LET n          == a.out_dim1 \div a.in_dim1
      chunk_size == a.out_dim0
      chunk_step == a.chunk_params[2]
  IN  /\ a.out_dim1 % a.in_dim1 = 0
      /\ n > 0
      /\ a.chunk_params[1] = chunk_size
      /\ chunk_step > 0
      /\ chunk_step * (n - 1) + chunk_size >= a.in_dim0
      /\ chunk_step * (n - 1) < a.in_dim0

\* cell idx of output (z = 0) and of oindex after copy_kernel
copy_kernel_cell(a, in, idx, output) ==
  LET n         == a.out_dim1 \div a.in_dim1
      out_x     == idx \div a.out_dim1
      out_y     == idx % a.out_dim1
      chunk_idx == out_y % n
      in_y      == out_y \div n
      in_x      == a.chunk_params[2] * chunk_idx + out_x
  IN  IF in_x < a.in_dim0 /\ in.index[in_x * a.in_dim1 + in_y] > 0
      THEN (IF output THEN in.x[in_x * a.in_dim1 + in_y] ELSE 1)
      ELSE 0

\* the kernel: it aborts if one of its assertions fails
CopyKernel ==
  /\ pc = "copy_kernel"
  /\ IF copy_kernel_asserts(ka)
     THEN /\ out' = [idx \in DOMAIN out |-> copy_kernel_cell(ka, inp, idx, TRUE)]
          /\ sum_output' = [idx \in DOMAIN sum_output |-> copy_kernel_cell(ka, inp, idx, FALSE)]
          /\ pc' = "done"
     ELSE /\ pc' = "aborted"
          /\ UNCHANGED <<out, sum_output>>
  /\ UNCHANGED <<avars, inp, t, d_prev, d_next, state_buffer, edge_buffer, post_weights,
                 kvars, hist>>

NextChunk == NaiveChunkStartFrames \/ Chunk \/ CopyKernel

SpecChunk == InitChunk /\ [][NextChunk]_vars

\* C24: for n_time, chunk_size, chunk_step >= 1 the number of chunks that chunk()
\* computes, floor(max(n_time - chunk_size + chunk_step - 1, 0) / chunk_step) + 1,
\* is the number of start frames that naive_chunk_start_frames returns: the
\* list returned has that many entries, and the buffers chunk() hands to the
\* kernel have as many chunks per batch entry as the list has entries
C24_ChunkCount ==
  /\ pc = "returned" =>
       Len(edge_buffer) = n_chunks(inp.n_time, inp.chunk_size, inp.chunk_step)
  /\ pc = "copy_kernel" =>
       ka.out_dim1 = inp.n_batch
                       * Len(naive_chunk_start_frames(inp.n_time, inp.chunk_size, inp.chunk_step))

C24_Witness ==
  /\ pc = "returned"
  /\ inp.n_time = 5 /\ inp.chunk_size = 2 /\ inp.chunk_step = 2
  /\ edge_buffer = <<0, 2, 4>>
  /\ n_chunks(5, 2, 2) = 3

\* C30 as stated: for n_time, chunk_size, chunk_step >= 1, chunk_step > chunk_size
\* included, the buffers that chunk() allocates pass the assertions of
\* copy_kernel, chunk_step * (n_chunks - 1) + chunk_size >= n_time and
\* chunk_step * (n_chunks - 1) < n_time: the kernel never aborts
C30_KernelNeverAborts ==
  /\ pc = "copy_kernel" => copy_kernel_asserts(ka)
  /\ inp.engine = "chunking" => pc # "aborted"

----------------------------------------------------------------------------
(* The per-step clear of the segmental forward sweep *)

\* C25 as stated: for every K >= 1 and every step t of the segmental forward
\* sweep the per-step clear sets all n_states entries of the ring slot
\* (t + K) mod (K + 1) to +inf and leaves every other slot, the slot
\* t mod (K + 1) that step t reads included, as it is; at step 0 the start
\* states still hold the value written before the sweep
C25_ForwardClear ==
  [][(inp.engine = "segmental" /\ pc = "s_fwd_fill") =>
       LET K       == inp.n_seg_frames
           cleared == (t + K) % (K + 1)
       IN  /\ \A st \in 0..(inp.n_states - 1) :
                state_buffer'[cleared * inp.n_states + st] = INF
           /\ \A i \in DOMAIN state_buffer :
                (i \div inp.n_states) # cleared => state_buffer'[i] = state_buffer[i]
           /\ t = 0 => \A q \in 0..(inp.n_seqs - 1) :
                         state_buffer'[Slot(inp, 0) * inp.n_states + inp.start_states[q]] = Zero
           /\ cleared # Slot(inp, t)]_vars

----------------------------------------------------------------------------
(* The layout of am_scores in the segmental engine *)

\* the offset of cell [i][b][m] of a contiguous tensor of shape
\* (n_seg_frames, n_batches, n_emissions), the shape of am_scores and of output
TensorCell(in, i, b, m) == (i * in.n_batches + b) * in.n_emissions + m

\* C26 as stated: the am_scores cell that the sweep kernel about to run reads
\* for an edge with batch slot b and label m and a segment of i + 1 frames is
\* the cell [i][b][m] of the tensor of shape (segment length, batch, emission),
\* the cell under which compute_targets writes output for (i, b, m)
C26_AmScoresLayout ==
  (inp.engine = "segmental" /\ pc \in {"s_fwd_next_frame", "s_bwd_next_frame"}) =>
    \A e \in 0..(inp.n_edges - 1) :
      LET b == SegBatch(inp, SegSweepTime, e)
          m == inp.emission_idxs[e]
      IN  b >= 0 =>
            \A i \in 0..(max_seg_frames(inp, SegSweepTime) - 1) :
              am_buffer_in(inp, b, m) + i * inp.n_emissions = TensorCell(inp, i, b, m)

----------------------------------------------------------------------------
(* The end-state initialisation of the segmental backward sweep *)

\* frame tt is the last frame in which sequence q has a batch slot
LastSlotFrame(in, q, tt) ==
  /\ in.batch_idxs[tt * in.n_seqs + q] >= 0
  /\ (tt = in.n_tot_frames - 1 \/ in.batch_idxs[(tt + 1) * in.n_seqs + q] < 0)

\* C27 as stated: for every K >= 1, K = 1 included, and every valid batch slot
\* init_bwd_state_buffer of the segmental backward sweep reads only cells
\* inside the index array of shape (K, n_batches), and it sets the end state of
\* a sequence if the slot is the last live frame of the sequence and leaves it
\* as it is otherwise
C27_EndStateInit ==
  [][(inp.engine = "segmental" /\ pc = "s_bwd_init") =>
       \A idx \in 0..(inp.n_seqs - 1) :
         LET batch_idx == inp.batch_idxs[(t - 1) * inp.n_seqs + idx]
             cell      == d_prev + inp.end_states[idx]
         IN  batch_idx >= 0 =>
               /\ batch_idx + inp.n_batches < inp.n_seg_frames * inp.n_batches
               /\ state_buffer'[cell]
                    = IF LastSlotFrame(inp, idx, t - 1) THEN Zero ELSE state_buffer[cell]]_vars

----------------------------------------------------------------------------
(* The normalization values of the base engine *)

\* C28: after a call of the base engine, for every sequence with at least one
\* complete path from its start to its end state, sums[t][seq] is the same for
\* every valid frame t of the sequence and is the total cost of all complete
\* paths of the sequence, the forward score of its end state after its last
\* live frame
C28_SumsAreTotalCost ==
  BaseDone =>
    \A q \in 0..(inp.n_seqs - 1) :
      Total(inp, q) # QZero =>
        \A tt \in 0..(inp.n_frames - 1) :
          Valid(inp, tt, q) => sum_output[tt * inp.n_seqs + q] = Total(inp, q)

C28_Witness ==
  /\ BaseDone /\ inp.n_seqs = 2 /\ inp.n_frames = 2
  /\ inp.L[1] = 2 /\ inp.L[2] = 1
  /\ Total(inp, 0) # QZero /\ Total(inp, 1) # QZero /\ Total(inp, 0) # Total(inp, 1)
  /\ Cardinality({e \in EdgeIds(inp) : inp.sequence_idxs[e] = 0
                                         /\ isfinite(edge_buffer[inp.n_edges + e])}) >= 2
  /\ sum_output[0] = Total(inp, 0) /\ sum_output[2] = Total(inp, 0)
  /\ sum_output[1] = Total(inp, 1)
  /\ sum_output[0] # Zero

----------------------------------------------------------------------------
(* NaN in the results of the base engine *)

NoNaN(in) ==
  /\ \A i \in DOMAIN in.am_scores : ~isnan(in.am_scores[i])
  /\ \A e \in DOMAIN in.weights : ~isnan(in.weights[e])

\* the combined normalized score in eb of the edges below n of sequence q with
\* label m in frame tt, the edges with a NaN score left out
RECURSIVE CellMass(_, _, _, _, _, _)
CellMass(in, eb, tt, q, m, n) ==
  IF n = 0 THEN INF
  ELSE LET r == CellMass(in, eb, tt, q, m, n - 1)
           x == eb[tt * in.n_edges + n - 1]
       IN  IF in.sequence_idxs[n - 1] = q /\ in.emission_idxs[n - 1] = m /\ ~isnan(x)
           THEN prob_add(r, x) ELSE r

\* C29: for inputs without NaN no cell of output or sums is NaN at the end of a
\* call of the base engine, and every output cell holds the combined score of
\* the edges of its frame, sequence and label whose normalized score is not
\* NaN (1e32 for +inf in the TensorFlow build): the NaN scores that normalize
\* leaves for a frame and sequence without a finite edge neither reach an
\* output cell nor erase the mass of another edge in it
C29_NoNaNInResult ==
  (BaseDone /\ NoNaN(inp)) =>
    /\ \A c \in DOMAIN out : ~isnan(out[c])
    /\ \A c \in DOMAIN sum_output : ~isnan(sum_output[c])
    /\ \A tt \in 0..(inp.n_frames - 1) : \A q \in 0..(inp.n_seqs - 1) :
         \A m \in 0..(inp.n_emissions - 1) :
           LET x == CellMass(inp, edge_buffer, tt, q, m, inp.n_edges)
           IN  out[Cell(inp, tt, q, m)] = IF inp.tensorflow /\ x = INF THEN BIG ELSE x

C29_Witness ==
  /\ BaseDone /\ NoNaN(inp) /\ ~inp.tensorflow
  /\ inp.n_frames = 2 /\ inp.n_seqs = 2
  /\ \E e \in EdgeIds(inp) : \E f \in EdgeIds(inp) :
       /\ inp.sequence_idxs[e] = 1 /\ isnan(edge_buffer[inp.n_edges + e])
       /\ out[Cell(inp, 1, 1, inp.emission_idxs[e])] = INF
       /\ inp.sequence_idxs[f] = 0 /\ isfinite(edge_buffer[inp.n_edges + f])
       /\ isfinite(out[Cell(inp, 1, 0, inp.emission_idxs[f])])
  /\ sum_output[3] = Zero /\ isfinite(sum_output[2])

====
